---- MODULE Spec2Model ----
(***************************************************************************)
(* A model of the chess program in src/chess_ubuntu.c: the GameState, the  *)
(* legality engine (isValidMove and the per-piece predicates), makeMove,   *)
(* the terminal-state detectors, the move generator, the search            *)
(* (getAIMove / minimax / quiescence), the FEN codec and the multiplayer   *)
(* receive loop of main.                                                   *)
(*                                                                         *)
(* A board is a tuple of 64 one-character strings; square (row, col) of    *)
(* the C array board[row][col] is element 8*row + col + 1.                 *)
(***************************************************************************)
EXTENDS Integers, Sequences, FiniteSets, TLC

BOARD_SIZE == 8

EMPTY == " "
WHITE_PAWN == "P"
WHITE_ROOK == "R"
WHITE_KNIGHT == "N"
WHITE_BISHOP == "B"
WHITE_QUEEN == "Q"
WHITE_KING == "K"
BLACK_PAWN == "p"
BLACK_ROOK == "r"
BLACK_KNIGHT == "n"
BLACK_BISHOP == "b"
BLACK_QUEEN == "q"
BLACK_KING == "k"

WhitePieces == {"P", "R", "N", "B", "Q", "K"}
BlackPieces == {"p", "r", "n", "b", "q", "k"}

Rows == 0 .. (BOARD_SIZE - 1)
Squares == 1 .. (BOARD_SIZE * BOARD_SIZE)

(* <ctype.h> on the characters a board holds. *)
isupper(ch) == ch \in WhitePieces
islower(ch) == ch \in BlackPieces
toupper(ch) ==
    CASE ch = "p" -> "P" [] ch = "r" -> "R" [] ch = "n" -> "N"
      [] ch = "b" -> "B" [] ch = "q" -> "Q" [] ch = "k" -> "K"
      [] OTHER -> ch
tolower(ch) ==
    CASE ch = "P" -> "p" [] ch = "R" -> "r" [] ch = "N" -> "n"
      [] ch = "B" -> "b" [] ch = "Q" -> "q" [] ch = "K" -> "k"
      [] OTHER -> ch
abs(x) == IF x < 0 THEN -x ELSE x

(* board[row][col] *)
Idx(row, col) == BOARD_SIZE * row + col + 1
At(s, row, col) == s.board[BOARD_SIZE * row + col + 1]
RowOf(i) == (i - 1) \div BOARD_SIZE
ColOf(i) == (i - 1) % BOARD_SIZE

(***************************************************************************)
(* initializeGameState                                                     *)
(***************************************************************************)
InitialBoard ==
    << "r", "n", "b", "q", "k", "b", "n", "r",
       "p", "p", "p", "p", "p", "p", "p", "p",
       " ", " ", " ", " ", " ", " ", " ", " ",
       " ", " ", " ", " ", " ", " ", " ", " ",
       " ", " ", " ", " ", " ", " ", " ", " ",
       " ", " ", " ", " ", " ", " ", " ", " ",
       "P", "P", "P", "P", "P", "P", "P", "P",
       "R", "N", "B", "Q", "K", "B", "N", "R" >>

initializeGameState ==
    [ board |-> InitialBoard,
      isWhiteTurn |-> TRUE,
      whiteCastleKingside |-> TRUE,
      whiteCastleQueenside |-> TRUE,
      blackCastleKingside |-> TRUE,
      blackCastleQueenside |-> TRUE,
      enPassantTargetRow |-> -1,
      enPassantTargetCol |-> -1,
      halfmoveClock |-> 0,
      fullmoveNumber |-> 1,
      canWhiteCastleKingside |-> TRUE,
      canWhiteCastleQueenside |-> TRUE,
      canBlackCastleKingside |-> TRUE,
      canBlackCastleQueenside |-> TRUE ]

(***************************************************************************)
(* Per-piece movement predicates                                           *)
(***************************************************************************)
(* A variant of isValidPawnMove without the two-square first move. *)
isValidPawnMoveSingleStepOnly(s, fromRow, fromCol, toRow, toCol) ==
    LET piece == At(s, fromRow, fromCol)
        direction == IF isupper(piece) THEN -1 ELSE 1
    IN  \/ (fromCol = toCol /\ toRow = fromRow + direction /\ At(s, toRow, toCol) = EMPTY)
        \/ (abs(fromCol - toCol) = 1 /\ toRow = fromRow + direction
            /\ At(s, toRow, toCol) # EMPTY)

isValidPawnMove(s, fromRow, fromCol, toRow, toCol) ==
    LET piece == At(s, fromRow, fromCol)
        direction == IF isupper(piece) THEN -1 ELSE 1
        startRow == IF isupper(piece) THEN 6 ELSE 1
    IN  IF toRow < 0 \/ toRow >= BOARD_SIZE \/ toCol < 0 \/ toCol >= BOARD_SIZE
        THEN FALSE
        ELSE IF fromCol = toCol /\ toRow = fromRow + direction
                /\ At(s, toRow, toCol) = EMPTY
        THEN TRUE
        ELSE IF fromCol = toCol /\ fromRow = startRow /\ toRow = fromRow + 2 * direction
        THEN At(s, fromRow + direction, fromCol) = EMPTY /\ At(s, toRow, toCol) = EMPTY
        ELSE IF abs(fromCol - toCol) = 1 /\ toRow = fromRow + direction
                /\ At(s, toRow, toCol) # EMPTY
                /\ (\/ (isupper(piece) /\ islower(At(s, toRow, toCol)))
                    \/ (islower(piece) /\ isupper(At(s, toRow, toCol))))
        THEN TRUE
        ELSE IF abs(fromCol - toCol) = 1 /\ toRow = fromRow + direction
                /\ At(s, toRow, toCol) = EMPTY
                /\ toRow = s.enPassantTargetRow
                /\ toCol = s.enPassantTargetCol
        THEN TRUE
        ELSE FALSE

isValidRookMove(s, fromRow, fromCol, toRow, toCol) ==
    IF fromRow # toRow /\ fromCol # toCol THEN FALSE
    ELSE IF fromRow = toRow /\ fromCol = toCol THEN FALSE
    ELSE
      LET rowStep == IF toRow > fromRow THEN 1 ELSE IF toRow < fromRow THEN -1 ELSE 0
          colStep == IF toCol > fromCol THEN 1 ELSE IF toCol < fromCol THEN -1 ELSE 0
          n == abs(toRow - fromRow) + abs(toCol - fromCol)
      IN  \A k \in 1 .. (n - 1) :
              At(s, fromRow + k * rowStep, fromCol + k * colStep) = EMPTY

isValidKnightMove(s, fromRow, fromCol, toRow, toCol) ==
    LET rowDiff == abs(toRow - fromRow)
        colDiff == abs(toCol - fromCol)
    IN  (rowDiff = 2 /\ colDiff = 1) \/ (rowDiff = 1 /\ colDiff = 2)

isValidBishopMove(s, fromRow, fromCol, toRow, toCol) ==
    IF abs(toRow - fromRow) # abs(toCol - fromCol) THEN FALSE
    ELSE IF fromRow = toRow /\ fromCol = toCol THEN FALSE
    ELSE
      LET rowStep == IF toRow > fromRow THEN 1 ELSE -1
          colStep == IF toCol > fromCol THEN 1 ELSE -1
          n == abs(toRow - fromRow)
      IN  \A k \in 1 .. (n - 1) :
              At(s, fromRow + k * rowStep, fromCol + k * colStep) = EMPTY

isValidQueenMove(s, fromRow, fromCol, toRow, toCol) ==
    \/ isValidRookMove(s, fromRow, fromCol, toRow, toCol)
    \/ isValidBishopMove(s, fromRow, fromCol, toRow, toCol)

(***************************************************************************)
(* isSquareAttacked, isInCheck                                             *)
(***************************************************************************)
(* A variant of isSquareAttacked in which a pawn attacks the square        *)
(* straight ahead of it as well.                                           *)
isSquareAttackedWithPawnPush(s, row, col, byWhite) ==
    \E i \in Rows, j \in Rows :
        LET piece == At(s, i, j)
        IN  /\ piece # EMPTY
            /\ (byWhite /\ isupper(piece)) \/ (~byWhite /\ islower(piece))
            /\ LET pieceType == toupper(piece)
               IN  CASE pieceType = WHITE_PAWN ->
                          abs(j - col) <= 1 /\ row = i + (IF isupper(piece) THEN -1 ELSE 1)
                     [] pieceType = WHITE_ROOK ->
                          (i = row \/ j = col) /\ isValidRookMove(s, i, j, row, col)
                     [] pieceType = WHITE_KNIGHT ->
                          isValidKnightMove(s, i, j, row, col)
                     [] pieceType = WHITE_BISHOP ->
                          abs(i - row) = abs(j - col) /\ isValidBishopMove(s, i, j, row, col)
                     [] pieceType = WHITE_QUEEN ->
                          (i = row \/ j = col \/ abs(i - row) = abs(j - col))
                          /\ isValidQueenMove(s, i, j, row, col)
                     [] pieceType = WHITE_KING ->
                          abs(i - row) <= 1 /\ abs(j - col) <= 1 /\ (i # row \/ j # col)
                     [] OTHER -> FALSE

isSquareAttacked(s, row, col, byWhite) ==
    \E i \in Rows, j \in Rows :
        LET piece == At(s, i, j)
        IN  /\ piece # EMPTY
            /\ (byWhite /\ isupper(piece)) \/ (~byWhite /\ islower(piece))
            /\ LET pieceType == toupper(piece)
               IN  CASE pieceType = WHITE_PAWN ->
                          LET direction == IF isupper(piece) THEN -1 ELSE 1
                          IN  abs(j - col) = 1 /\ row = i + direction
                     [] pieceType = WHITE_ROOK ->
                          (i = row \/ j = col) /\ isValidRookMove(s, i, j, row, col)
                     [] pieceType = WHITE_KNIGHT ->
                          isValidKnightMove(s, i, j, row, col)
                     [] pieceType = WHITE_BISHOP ->
                          abs(i - row) = abs(j - col) /\ isValidBishopMove(s, i, j, row, col)
                     [] pieceType = WHITE_QUEEN ->
                          (i = row \/ j = col \/ abs(i - row) = abs(j - col))
                          /\ isValidQueenMove(s, i, j, row, col)
                     [] pieceType = WHITE_KING ->
                          abs(i - row) <= 1 /\ abs(j - col) <= 1 /\ (i # row \/ j # col)
                     [] OTHER -> FALSE

(* The first square, in row-major order, holding kingPiece; 0 when none    *)
(* (kingRow == -1 in the code).                                            *)
FindKing(s, kingPiece) ==
    LET ks == {i \in Squares : s.board[i] = kingPiece}
    IN  IF ks = {} THEN 0 ELSE CHOOSE i \in ks : \A j \in ks : i <= j

isInCheck(s, isWhiteKing) ==
    LET k == FindKing(s, IF isWhiteKing THEN WHITE_KING ELSE BLACK_KING)
    IN  IF k = 0 THEN FALSE
        ELSE isSquareAttacked(s, RowOf(k), ColOf(k), ~isWhiteKing)

(***************************************************************************)
(* Castling                                                                *)
(***************************************************************************)
isValidCastling(s, fromRow, fromCol, toRow, toCol) ==
    LET piece == At(s, fromRow, fromCol)
        isWhite == isupper(piece)
        isKingSide == toCol > fromCol
        rookCol == IF isKingSide THEN 7 ELSE 0
        expectedRook == IF isWhite THEN WHITE_ROOK ELSE BLACK_ROOK
        step == IF isKingSide THEN 1 ELSE -1
    IN  IF toupper(piece) # WHITE_KING \/ fromRow # (IF isWhite THEN 7 ELSE 0) \/ fromCol # 4
        THEN FALSE
        ELSE IF abs(toCol - fromCol) # 2 \/ toRow # fromRow THEN FALSE
        ELSE IF isInCheck(s, isWhite) THEN FALSE
        ELSE IF isWhite /\ isKingSide /\ ~s.canWhiteCastleKingside THEN FALSE
        ELSE IF isWhite /\ ~isKingSide /\ ~s.canWhiteCastleQueenside THEN FALSE
        ELSE IF ~isWhite /\ isKingSide /\ ~s.canBlackCastleKingside THEN FALSE
        ELSE IF ~isWhite /\ ~isKingSide /\ ~s.canBlackCastleQueenside THEN FALSE
        ELSE IF At(s, fromRow, rookCol) # expectedRook THEN FALSE
        ELSE IF \E k \in 1 .. (abs(rookCol - fromCol) - 1) :
                    At(s, fromRow, fromCol + k * step) # EMPTY
        THEN FALSE
        ELSE ~ \E k \in 0 .. abs(toCol - fromCol) :
                    isSquareAttacked(s, fromRow, fromCol + k * step, ~isWhite)

isValidKingMove(s, fromRow, fromCol, toRow, toCol) ==
    IF abs(toRow - fromRow) <= 1 /\ abs(toCol - fromCol) <= 1 THEN TRUE
    ELSE IF abs(fromCol - toCol) = 2 /\ fromRow = toRow
    THEN isValidCastling(s, fromRow, fromCol, toRow, toCol)
    ELSE FALSE

(***************************************************************************)
(* Pin detection                                                           *)
(***************************************************************************)
NoPin == [isPinned |-> FALSE, pinDirection |-> <<0, 0>>,
          pinningPieceRow |-> -1, pinningPieceCol |-> -1]

RECURSIVE PinWalkAnyEnemyPiece(_, _, _, _, _, _)
(* A variant of the walk that takes the first piece met for a pinning      *)
(* piece whenever it is an enemy piece, whatever its kind.                 *)
PinWalkAnyEnemyPiece(s, isWhitePiece, checkRow, checkCol, stepR, stepC) ==
    IF ~(checkRow >= 0 /\ checkRow < BOARD_SIZE /\ checkCol >= 0 /\ checkCol < BOARD_SIZE)
    THEN NoPin
    ELSE
      LET checkPiece == At(s, checkRow, checkCol)
      IN  IF checkPiece # EMPTY
          THEN IF (isWhitePiece /\ islower(checkPiece)) \/ (~isWhitePiece /\ isupper(checkPiece))
               THEN [isPinned |-> TRUE, pinDirection |-> <<stepR, stepC>>,
                     pinningPieceRow |-> checkRow, pinningPieceCol |-> checkCol]
               ELSE NoPin
          ELSE PinWalkAnyEnemyPiece(s, isWhitePiece, checkRow + stepR, checkCol + stepC,
                                    stepR, stepC)

RECURSIVE PinWalk(_, _, _, _, _, _)
(* The while loop of getPinInfo: walk from (checkRow, checkCol) in steps   *)
(* of (stepR, stepC) up to the first piece.                                *)
PinWalk(s, isWhitePiece, checkRow, checkCol, stepR, stepC) ==
    IF ~(checkRow >= 0 /\ checkRow < BOARD_SIZE /\ checkCol >= 0 /\ checkCol < BOARD_SIZE)
    THEN NoPin
    ELSE
      LET checkPiece == At(s, checkRow, checkCol)
      IN  IF checkPiece # EMPTY
          THEN LET isEnemyPiece == \/ (isWhitePiece /\ islower(checkPiece))
                                   \/ (~isWhitePiece /\ isupper(checkPiece))
                   pieceType == toupper(checkPiece)
                   canPin == \/ ((stepR = 0 \/ stepC = 0) /\ pieceType \in {"R", "Q"})
                             \/ (abs(stepR) = abs(stepC) /\ pieceType \in {"B", "Q"})
               IN  IF isEnemyPiece /\ canPin
                   THEN [isPinned |-> TRUE, pinDirection |-> <<stepR, stepC>>,
                         pinningPieceRow |-> checkRow, pinningPieceCol |-> checkCol]
                   ELSE NoPin
          ELSE PinWalk(s, isWhitePiece, checkRow + stepR, checkCol + stepC, stepR, stepC)

getPinInfo(s, row, col) ==
    LET piece == At(s, row, col)
        isWhitePiece == isupper(piece)
        k == FindKing(s, IF isWhitePiece THEN WHITE_KING ELSE BLACK_KING)
        kingRow == RowOf(k)
        kingCol == ColOf(k)
        dr == kingRow - row
        dc == kingCol - col
        stepR == IF dr # 0 THEN dr \div abs(dr) ELSE 0
        stepC == IF dc # 0 THEN dc \div abs(dc) ELSE 0
    IN  IF piece = EMPTY THEN NoPin
        ELSE IF k = 0 THEN NoPin
        ELSE IF ~(dr = 0 \/ dc = 0 \/ abs(dr) = abs(dc)) THEN NoPin
        ELSE PinWalk(s, isWhitePiece, kingRow + stepR, kingCol + stepC, stepR, stepC)

isMoveAlongPinRay(fromRow, fromCol, toRow, toCol, pin) ==
    IF ~pin.isPinned THEN TRUE
    ELSE
      LET m0 == toRow - fromRow
          m1 == toCol - fromCol
          n0 == IF m0 # 0 THEN m0 \div abs(m0) ELSE 0
          n1 == IF m1 # 0 THEN m1 \div abs(m1) ELSE 0
      IN  \/ (n0 = pin.pinDirection[1] /\ n1 = pin.pinDirection[2])
          \/ (n0 = -pin.pinDirection[1] /\ n1 = -pin.pinDirection[2])

(***************************************************************************)
(* The simulated move shared by doesMovePutKingInCheck, scoreMoveFor-      *)
(* Ordering, quiescence, minimax and getAIMove:                            *)
(*   tempPiece = board[to]; board[to] = board[from]; board[from] = EMPTY   *)
(* and its undo:                                                           *)
(*   board[from] = board[to]; board[to] = tempPiece                        *)
(***************************************************************************)
ApplyRaw(s, fromRow, fromCol, toRow, toCol) ==
    LET b1 == [s.board EXCEPT ![Idx(toRow, toCol)] = s.board[Idx(fromRow, fromCol)]]
    IN  [s EXCEPT !.board = [b1 EXCEPT ![Idx(fromRow, fromCol)] = EMPTY]]

(* A variant of the undo that leaves the target square empty instead of    *)
(* putting tempPiece back.                                                 *)
UndoRawWithoutCapturedPiece(s, fromRow, fromCol, toRow, toCol, tempPiece) ==
    LET b1 == [s.board EXCEPT ![Idx(fromRow, fromCol)] = s.board[Idx(toRow, toCol)]]
    IN  [s EXCEPT !.board = [b1 EXCEPT ![Idx(toRow, toCol)] = EMPTY]]

UndoRaw(s, fromRow, fromCol, toRow, toCol, tempPiece) ==
    LET b1 == [s.board EXCEPT ![Idx(fromRow, fromCol)] = s.board[Idx(toRow, toCol)]]
    IN  [s EXCEPT !.board = [b1 EXCEPT ![Idx(toRow, toCol)] = tempPiece]]

doesMovePutKingInCheck(s, fromRow, fromCol, toRow, toCol) ==
    isInCheck(ApplyRaw(s, fromRow, fromCol, toRow, toCol), s.isWhiteTurn)

(***************************************************************************)
(* isValidMove                                                             *)
(***************************************************************************)
validPieceMove(s, fromRow, fromCol, toRow, toCol) ==
    LET pieceType == toupper(At(s, fromRow, fromCol))
    IN  CASE pieceType = WHITE_PAWN -> isValidPawnMove(s, fromRow, fromCol, toRow, toCol)
          [] pieceType = WHITE_ROOK -> isValidRookMove(s, fromRow, fromCol, toRow, toCol)
          [] pieceType = WHITE_KNIGHT -> isValidKnightMove(s, fromRow, fromCol, toRow, toCol)
          [] pieceType = WHITE_BISHOP -> isValidBishopMove(s, fromRow, fromCol, toRow, toCol)
          [] pieceType = WHITE_QUEEN -> isValidQueenMove(s, fromRow, fromCol, toRow, toCol)
          [] pieceType = WHITE_KING -> isValidKingMove(s, fromRow, fromCol, toRow, toCol)
          [] OTHER -> FALSE

isValidMove(s, fromRow, fromCol, toRow, toCol) ==
    IF \/ fromRow < 0 \/ fromRow >= BOARD_SIZE \/ fromCol < 0 \/ fromCol >= BOARD_SIZE
       \/ toRow < 0 \/ toRow >= BOARD_SIZE \/ toCol < 0 \/ toCol >= BOARD_SIZE
    THEN FALSE
    ELSE
      LET piece == At(s, fromRow, fromCol)
      IN  IF piece = EMPTY THEN FALSE
          ELSE IF s.isWhiteTurn /\ ~isupper(piece) THEN FALSE
          ELSE IF ~s.isWhiteTurn /\ isupper(piece) THEN FALSE
          ELSE IF s.isWhiteTurn /\ isupper(At(s, toRow, toCol)) THEN FALSE
          ELSE IF ~s.isWhiteTurn /\ islower(At(s, toRow, toCol)) THEN FALSE
          ELSE IF ~validPieceMove(s, fromRow, fromCol, toRow, toCol) THEN FALSE
          ELSE LET pinInfo == getPinInfo(s, fromRow, fromCol)
               IN  IF pinInfo.isPinned
                      /\ ~isMoveAlongPinRay(fromRow, fromCol, toRow, toCol, pinInfo)
                   THEN FALSE
                   ELSE ~doesMovePutKingInCheck(s, fromRow, fromCol, toRow, toCol)

(***************************************************************************)
(* makeMove (with promotePawn and updateCastlingRights)                    *)
(***************************************************************************)
(* promotePawn: promotion is the piece letter read from the terminal,      *)
(* already upper-cased, one of Q R B N.                                    *)
PromotionChoices == {"Q", "R", "B", "N"}

(* A variant of promotePawn that stores the letter as read, in upper case, *)
(* whatever the colour of the pawn.                                        *)
promotePawnUpperCase(board, row, col, promotion) ==
    [board EXCEPT ![Idx(row, col)] = promotion]

promotePawn(board, row, col, promotion) ==
    IF isupper(board[Idx(row, col)])
    THEN [board EXCEPT ![Idx(row, col)] = promotion]
    ELSE [board EXCEPT ![Idx(row, col)] = tolower(promotion)]

(* A variant of updateCastlingRights in which a king move clears only the  *)
(* king-side right.                                                        *)
updateCastlingRightsKingSideOnly(s, fromRow, fromCol, toRow, toCol) ==
    LET piece == At(s, toRow, toCol)
    IN  CASE piece = WHITE_KING -> [s EXCEPT !.canWhiteCastleKingside = FALSE]
          [] piece = BLACK_KING -> [s EXCEPT !.canBlackCastleKingside = FALSE]
          [] OTHER -> s

(* A variant of updateCastlingRights without its last four lines, the      *)
(* rights lost with a rook taken on its corner.                            *)
updateCastlingRightsMoverOnly(s, fromRow, fromCol, toRow, toCol) ==
    LET piece == At(s, toRow, toCol)
    IN  CASE piece = WHITE_KING ->
               [s EXCEPT !.canWhiteCastleKingside = FALSE,
                         !.canWhiteCastleQueenside = FALSE]
          [] piece = BLACK_KING ->
               [s EXCEPT !.canBlackCastleKingside = FALSE,
                         !.canBlackCastleQueenside = FALSE]
          [] piece = WHITE_ROOK ->
               [s EXCEPT !.canWhiteCastleQueenside =
                             IF fromRow = 7 /\ fromCol = 0 THEN FALSE ELSE @,
                         !.canWhiteCastleKingside =
                             IF fromRow = 7 /\ fromCol = 7 THEN FALSE ELSE @]
          [] piece = BLACK_ROOK ->
               [s EXCEPT !.canBlackCastleQueenside =
                             IF fromRow = 0 /\ fromCol = 0 THEN FALSE ELSE @,
                         !.canBlackCastleKingside =
                             IF fromRow = 0 /\ fromCol = 7 THEN FALSE ELSE @]
          [] OTHER -> s

updateCastlingRights(s, fromRow, fromCol, toRow, toCol) ==
    LET piece == At(s, toRow, toCol)
        s1 == CASE piece = WHITE_KING ->
                     [s EXCEPT !.canWhiteCastleKingside = FALSE,
                               !.canWhiteCastleQueenside = FALSE]
                [] piece = BLACK_KING ->
                     [s EXCEPT !.canBlackCastleKingside = FALSE,
                               !.canBlackCastleQueenside = FALSE]
                [] piece = WHITE_ROOK ->
                     [s EXCEPT !.canWhiteCastleQueenside =
                                   IF fromRow = 7 /\ fromCol = 0 THEN FALSE ELSE @,
                               !.canWhiteCastleKingside =
                                   IF fromRow = 7 /\ fromCol = 7 THEN FALSE ELSE @]
                [] piece = BLACK_ROOK ->
                     [s EXCEPT !.canBlackCastleQueenside =
                                   IF fromRow = 0 /\ fromCol = 0 THEN FALSE ELSE @,
                               !.canBlackCastleKingside =
                                   IF fromRow = 0 /\ fromCol = 7 THEN FALSE ELSE @]
                [] OTHER -> s
    IN  [s1 EXCEPT !.canBlackCastleQueenside = IF toRow = 0 /\ toCol = 0 THEN FALSE ELSE @,
                   !.canBlackCastleKingside = IF toRow = 0 /\ toCol = 7 THEN FALSE ELSE @,
                   !.canWhiteCastleQueenside = IF toRow = 7 /\ toCol = 0 THEN FALSE ELSE @,
                   !.canWhiteCastleKingside = IF toRow = 7 /\ toCol = 7 THEN FALSE ELSE @]

(* Whether makeMove calls promotePawn for this move. *)
IsPromotion(s, fromRow, fromCol, toRow, toCol) ==
    LET piece == At(s, fromRow, fromCol)
    IN  (piece = WHITE_PAWN /\ toRow = 0) \/ (piece = BLACK_PAWN /\ toRow = 7)

(* The letters promotePawn may read for the move m; "Q" stands for no read. *)
PromotionsFor(s, m) ==
    IF IsPromotion(s, m[1], m[2], m[3], m[4]) THEN PromotionChoices ELSE {"Q"}

(* A variant of the halfmove clock update that resets the clock on pawn    *)
(* moves only.                                                             *)
halfmoveClockAfterPawnOnly(halfmoveClock, piece, capturedPiece) ==
    IF toupper(piece) = WHITE_PAWN THEN 0 ELSE halfmoveClock + 1

(* makeMove's update of the halfmove clock. *)
halfmoveClockAfter(halfmoveClock, piece, capturedPiece) ==
    IF toupper(piece) = WHITE_PAWN \/ capturedPiece # EMPTY THEN 0 ELSE halfmoveClock + 1

makeMove(s, fromRow, fromCol, toRow, toCol, promotion) ==
    LET piece == At(s, fromRow, fromCol)
        capturedPiece == At(s, toRow, toCol)
        b1 == ApplyRaw(s, fromRow, fromCol, toRow, toCol).board
        rookFromCol == IF toCol > fromCol THEN 7 ELSE 0
        rookToCol == IF toCol > fromCol THEN toCol - 1 ELSE toCol + 1
        b2 == IF toupper(piece) = WHITE_KING /\ abs(fromCol - toCol) = 2
              THEN [[b1 EXCEPT ![Idx(toRow, rookToCol)] = b1[Idx(fromRow, rookFromCol)]]
                        EXCEPT ![Idx(fromRow, rookFromCol)] = EMPTY]
              ELSE b1
        b3 == IF toupper(piece) = WHITE_PAWN /\ toCol = s.enPassantTargetCol
                 /\ toRow = s.enPassantTargetRow
              THEN [b2 EXCEPT ![Idx(fromRow, toCol)] = EMPTY]
              ELSE b2
        b4 == IF (piece = WHITE_PAWN /\ toRow = 0) \/ (piece = BLACK_PAWN /\ toRow = 7)
              THEN promotePawn(b3, toRow, toCol, promotion)
              ELSE b3
        s1 == updateCastlingRights([s EXCEPT !.board = b4], fromRow, fromCol, toRow, toCol)
        isDouble == toupper(piece) = WHITE_PAWN /\ abs(fromRow - toRow) = 2
    IN  [s1 EXCEPT !.enPassantTargetRow = IF isDouble THEN (fromRow + toRow) \div 2 ELSE -1,
                   !.enPassantTargetCol = IF isDouble THEN toCol ELSE -1,
                   !.halfmoveClock = halfmoveClockAfter(@, piece, capturedPiece),
                   !.fullmoveNumber = IF ~s.isWhiteTurn THEN @ + 1 ELSE @]

(* The caller's turn flip after makeMove:                                  *)
(*   state.isWhiteTurn = !state.isWhiteTurn                                *)
FlipTurn(s) == [s EXCEPT !.isWhiteTurn = ~s.isWhiteTurn]

(***************************************************************************)
(* generateAllMoves: the moves in the order of the four nested loops.      *)
(***************************************************************************)
MoveOf(i, j) == <<RowOf(i), ColOf(i), RowOf(j), ColOf(j)>>

OwnSquares(s) ==
    {i \in Squares : (s.isWhiteTurn /\ isupper(s.board[i]))
                     \/ (~s.isWhiteTurn /\ islower(s.board[i]))}

(* All (from, to) pairs isValidMove accepts, as move numbers               *)
(* 64 * (from - 1) + (to - 1): their numeric order is the loops' order.    *)
ValidMoveSet(s) ==
    {m \in {64 * (i - 1) + (j - 1) : i \in OwnSquares(s), j \in Squares} :
        isValidMove(s, RowOf((m \div 64) + 1), ColOf((m \div 64) + 1),
                       RowOf((m % 64) + 1), ColOf((m % 64) + 1))}

RECURSIVE SortedSeq(_)
(* The elements of a finite set of integers in increasing order. *)
SortedSeq(S) ==
    IF S = {} THEN <<>>
    ELSE LET m == CHOOSE x \in S : \A y \in S : x <= y
         IN  <<m>> \o SortedSeq(S \ {m})

MoveOfNum(m) ==
    <<RowOf((m \div 64) + 1), ColOf((m \div 64) + 1),
      RowOf((m % 64) + 1), ColOf((m % 64) + 1)>>

MOVELIST_CAPACITY == 256

(* The first MOVELIST_CAPACITY of the move numbers in all, as moves. *)
KeptMoves(all) ==
    [k \in 1 .. (IF Len(all) > MOVELIST_CAPACITY THEN MOVELIST_CAPACITY ELSE Len(all)) |->
        MoveOfNum(all[k])]

(* moveList->moves[0 .. count-1] *)
GeneratedMoves(s) == KeptMoves(SortedSeq(ValidMoveSet(s)))

(***************************************************************************)
(* Terminal-state detection                                                *)
(***************************************************************************)
isCheckmate(s) ==
    LET isWhiteKing == s.isWhiteTurn
        k == FindKing(s, IF isWhiteKing THEN WHITE_KING ELSE BLACK_KING)
    IN  IF ~isInCheck(s, isWhiteKing) THEN FALSE
        ELSE IF k # 0 /\ \E dr \in -1 .. 1, dc \in -1 .. 1 :
                    /\ ~(dr = 0 /\ dc = 0)
                    /\ RowOf(k) + dr >= 0 /\ RowOf(k) + dr < BOARD_SIZE
                    /\ ColOf(k) + dc >= 0 /\ ColOf(k) + dc < BOARD_SIZE
                    /\ isValidMove(s, RowOf(k), ColOf(k), RowOf(k) + dr, ColOf(k) + dc)
        THEN FALSE
        ELSE ~ \E i \in Squares :
                    /\ (isWhiteKing /\ isupper(s.board[i])) \/ (~isWhiteKing /\ islower(s.board[i]))
                    /\ toupper(s.board[i]) # WHITE_KING
                    /\ \E j \in Squares :
                          isValidMove(s, RowOf(i), ColOf(i), RowOf(j), ColOf(j))

(* A variant of isStalemate without the isInCheck test. *)
isStalemateIgnoringCheck(s) ==
    ~ \E i \in Squares :
          /\ (s.isWhiteTurn /\ isupper(s.board[i])) \/ (~s.isWhiteTurn /\ islower(s.board[i]))
          /\ \E j \in Squares : isValidMove(s, RowOf(i), ColOf(i), RowOf(j), ColOf(j))

isStalemate(s) ==
    IF isInCheck(s, s.isWhiteTurn) THEN FALSE
    ELSE ~ \E i \in Squares :
               /\ (s.isWhiteTurn /\ isupper(s.board[i])) \/ (~s.isWhiteTurn /\ islower(s.board[i]))
               /\ \E j \in Squares : isValidMove(s, RowOf(i), ColOf(i), RowOf(j), ColOf(j))

(* A variant of BishopSquareColor that takes every bishop's square for     *)
(* dark.                                                                   *)
BishopSquareColorAlwaysDark(s, bishop) == 0

(* The square colour recorded for the last bishop met in row-major order;  *)
(* -1 when there is none.                                                  *)
BishopSquareColor(s, bishop) ==
    LET bs == {i \in Squares : s.board[i] = bishop}
    IN  IF bs = {} THEN -1
        ELSE LET last == CHOOSE i \in bs : \A j \in bs : j <= i
             IN  (RowOf(last) + ColOf(last)) % 2

CountOf(s, pieces) == Cardinality({i \in Squares : s.board[i] \in pieces})

isInsufficientMaterial(s) ==
    IF \E i \in Squares : s.board[i] \in {"P", "R", "Q", "p", "r", "q"} THEN FALSE
    ELSE
      LET whiteKnights == CountOf(s, {"N"})
          blackKnights == CountOf(s, {"n"})
          whiteBishops == CountOf(s, {"B"})
          blackBishops == CountOf(s, {"b"})
          whitePieces == CountOf(s, {"N", "B", "K"})
          blackPieces == CountOf(s, {"n", "b", "k"})
      IN  IF whitePieces = 1 /\ blackPieces = 1 THEN TRUE
          ELSE IF \/ (whitePieces = 2 /\ blackPieces = 1 /\ (whiteBishops = 1 \/ whiteKnights = 1))
                  \/ (blackPieces = 2 /\ whitePieces = 1 /\ (blackBishops = 1 \/ blackKnights = 1))
          THEN TRUE
          ELSE IF whitePieces = 2 /\ blackPieces = 2 /\ whiteBishops = 1 /\ blackBishops = 1
                  /\ BishopSquareColor(s, "B") = BishopSquareColor(s, "b")
          THEN TRUE
          ELSE IF whitePieces = 2 /\ blackPieces = 2 /\ whiteKnights = 1 /\ blackKnights = 1
          THEN TRUE
          ELSE FALSE

isThreefoldRepetition(s) == FALSE

FIFTY_MOVE_HALFMOVES == 100

(* A variant of isFiftyMoveRule that needs the clock to pass the limit. *)
isFiftyMoveRuleAfterLimit(s) == s.halfmoveClock > FIFTY_MOVE_HALFMOVES

isFiftyMoveRule(s) == s.halfmoveClock >= FIFTY_MOVE_HALFMOVES

isDraw(s) ==
    isStalemate(s) \/ isInsufficientMaterial(s) \/ isFiftyMoveRule(s) \/ isThreefoldRepetition(s)

(***************************************************************************)
(* Evaluation                                                              *)
(***************************************************************************)
PAWN_VALUE == 100
KNIGHT_VALUE == 300
BISHOP_VALUE == 300
ROOK_VALUE == 500
QUEEN_VALUE == 900

pawnPositionValues ==
    << <<0, 0, 0, 0, 0, 0, 0, 0>>,
       <<50, 50, 50, 50, 50, 50, 50, 50>>,
       <<10, 10, 20, 30, 30, 20, 10, 10>>,
       <<5, 5, 10, 25, 25, 10, 5, 5>>,
       <<0, 0, 0, 20, 20, 0, 0, 0>>,
       <<5, -5, -10, 0, 0, -10, -5, 5>>,
       <<5, 10, 10, -20, -20, 10, 10, 5>>,
       <<0, 0, 0, 0, 0, 0, 0, 0>> >>

knightPositionValues ==
    << <<-50, -40, -30, -30, -30, -30, -40, -50>>,
       <<-40, -20, 0, 0, 0, 0, -20, -40>>,
       <<-30, 0, 10, 15, 15, 10, 0, -30>>,
       <<-30, 5, 15, 20, 20, 15, 5, -30>>,
       <<-30, 0, 15, 20, 20, 15, 0, -30>>,
       <<-30, 5, 10, 15, 15, 10, 5, -30>>,
       <<-40, -20, 0, 5, 5, 0, -20, -40>>,
       <<-50, -40, -30, -30, -30, -30, -40, -50>> >>

bishopPositionValues ==
    << <<-20, -10, -10, -10, -10, -10, -10, -20>>,
       <<-10, 0, 0, 0, 0, 0, 0, -10>>,
       <<-10, 0, 5, 10, 10, 5, 0, -10>>,
       <<-10, 5, 5, 10, 10, 5, 5, -10>>,
       <<-10, 0, 10, 10, 10, 10, 0, -10>>,
       <<-10, 10, 10, 10, 10, 10, 10, -10>>,
       <<-10, 5, 0, 0, 0, 0, 5, -10>>,
       <<-20, -10, -10, -10, -10, -10, -10, -20>> >>

rookPositionValues ==
    << <<0, 0, 0, 0, 0, 0, 0, 0>>,
       <<5, 10, 10, 10, 10, 10, 10, 5>>,
       <<-5, 0, 0, 0, 0, 0, 0, -5>>,
       <<-5, 0, 0, 0, 0, 0, 0, -5>>,
       <<-5, 0, 0, 0, 0, 0, 0, -5>>,
       <<-5, 0, 0, 0, 0, 0, 0, -5>>,
       <<-5, 0, 0, 0, 0, 0, 0, -5>>,
       <<0, 0, 0, 5, 5, 0, 0, 0>> >>

queenPositionValues ==
    << <<-20, -10, -10, -5, -5, -10, -10, -20>>,
       <<-10, 0, 0, 0, 0, 0, 0, -10>>,
       <<-10, 0, 5, 5, 5, 5, 0, -10>>,
       <<-5, 0, 5, 5, 5, 5, 0, -5>>,
       <<0, 0, 5, 5, 5, 5, 0, -5>>,
       <<-10, 5, 5, 5, 5, 5, 0, -10>>,
       <<-10, 0, 5, 0, 0, 0, 0, -10>>,
       <<-20, -10, -10, -5, -5, -10, -10, -20>> >>

kingPositionValues ==
    << <<-30, -40, -40, -50, -50, -40, -40, -30>>,
       <<-30, -40, -40, -50, -50, -40, -40, -30>>,
       <<-30, -40, -40, -50, -50, -40, -40, -30>>,
       <<-30, -40, -40, -50, -50, -40, -40, -30>>,
       <<-20, -30, -30, -40, -40, -30, -30, -20>>,
       <<-10, -20, -20, -20, -20, -20, -20, -10>>,
       <<20, 20, 0, 0, 0, 0, 20, 20>>,
       <<20, 30, 10, 0, 0, 10, 30, 20>> >>

(* isPieceUnderAttack: some enemy piece's move onto (row, col) is accepted *)
(* by isValidMove once the turn is set to that piece's colour.             *)
isPieceUnderAttack(s, row, col) ==
    LET piece == At(s, row, col)
        isWhitePiece == isupper(piece)
    IN  IF piece = EMPTY THEN FALSE
        ELSE \E i \in Rows, j \in Rows :
                LET attackingPiece == At(s, i, j)
                IN  /\ attackingPiece # EMPTY
                    /\ (isWhitePiece /\ islower(attackingPiece))
                       \/ (~isWhitePiece /\ isupper(attackingPiece))
                    /\ isValidMove([s EXCEPT !.isWhiteTurn = isupper(attackingPiece)],
                                   i, j, row, col)

PieceValueOf(piece) ==
    CASE toupper(piece) = WHITE_PAWN -> PAWN_VALUE
      [] toupper(piece) = WHITE_KNIGHT -> KNIGHT_VALUE
      [] toupper(piece) = WHITE_BISHOP -> BISHOP_VALUE
      [] toupper(piece) = WHITE_ROOK -> ROOK_VALUE
      [] toupper(piece) = WHITE_QUEEN -> QUEEN_VALUE
      [] OTHER -> 0

PositionValueOf(piece, row, col) ==
    CASE toupper(piece) = WHITE_PAWN -> pawnPositionValues[row + 1][col + 1]
      [] toupper(piece) = WHITE_KNIGHT -> knightPositionValues[row + 1][col + 1]
      [] toupper(piece) = WHITE_BISHOP -> bishopPositionValues[row + 1][col + 1]
      [] toupper(piece) = WHITE_ROOK -> rookPositionValues[row + 1][col + 1]
      [] toupper(piece) = WHITE_QUEEN -> queenPositionValues[row + 1][col + 1]
      [] toupper(piece) = WHITE_KING -> kingPositionValues[row + 1][col + 1]
      [] OTHER -> 0

(* The captures of enemy pieces isValidMove accepts for the piece on       *)
(* square i, with the turn set to that piece's colour.                     *)
AttacksBy(s, i) ==
    LET white == isupper(s.board[i])
        t == [s EXCEPT !.isWhiteTurn = white]
    IN  Cardinality({j \in Squares :
            /\ s.board[j] # EMPTY
            /\ IF white THEN islower(s.board[j]) ELSE isupper(s.board[j])
            /\ isValidMove(t, RowOf(i), ColOf(i), RowOf(j), ColOf(j))})

RECURSIVE SumOver(_, _)
(* The sum of f[x] over the finite set S. *)
SumOver(f, S) ==
    IF S = {} THEN 0
    ELSE LET x == CHOOSE y \in S : TRUE IN f[x] + SumOver(f, S \ {x})

evaluatePawnStructure(s) ==
    LET whitePawns(col) == Cardinality({row \in Rows : At(s, row, col) = WHITE_PAWN})
        blackPawns(col) == Cardinality({row \in Rows : At(s, row, col) = BLACK_PAWN})
        adjacent(col) == {c \in {col - 1, col + 1} : c >= 0 /\ c < BOARD_SIZE}
        whiteIsolated(col) == \A c \in adjacent(col) : whitePawns(c) = 0
        blackIsolated(col) == \A c \in adjacent(col) : blackPawns(c) = 0
        colScore == [col \in Rows |->
              (IF whitePawns(col) > 1 THEN -10 * (whitePawns(col) - 1) ELSE 0)
            + (IF blackPawns(col) > 1 THEN 10 * (blackPawns(col) - 1) ELSE 0)
            + (IF whitePawns(col) > 0 /\ whiteIsolated(col) THEN -15 ELSE 0)
            + (IF blackPawns(col) > 0 /\ blackIsolated(col) THEN 15 ELSE 0)]
    IN  SumOver(colScore, Rows)

(* The last square, in row-major order, holding kingPiece; 0 when none. *)
LastKing(s, kingPiece) ==
    LET ks == {i \in Squares : s.board[i] = kingPiece}
    IN  IF ks = {} THEN 0 ELSE CHOOSE i \in ks : \A j \in ks : j <= i

evaluateKingSafety(s) ==
    LET wk == LastKing(s, WHITE_KING)
        bk == LastKing(s, BLACK_KING)
        whiteKingRow == RowOf(wk)
        whiteKingCol == ColOf(wk)
        blackKingRow == RowOf(bk)
        blackKingCol == ColOf(bk)
        cols(kc) == {c \in {kc - 1, kc, kc + 1} : c >= 0 /\ c < BOARD_SIZE}
        whiteShield ==
            IF wk = 0 THEN 0
            ELSE 15 * Cardinality({c \in cols(whiteKingCol) :
                        whiteKingRow > 0 /\ At(s, whiteKingRow - 1, c) = WHITE_PAWN})
               + 10 * Cardinality({c \in cols(whiteKingCol) :
                        whiteKingRow > 1 /\ At(s, whiteKingRow - 2, c) = WHITE_PAWN})
        blackShield ==
            IF bk = 0 THEN 0
            ELSE 15 * Cardinality({c \in cols(blackKingCol) :
                        blackKingRow < 7 /\ At(s, blackKingRow + 1, c) = BLACK_PAWN})
               + 10 * Cardinality({c \in cols(blackKingCol) :
                        blackKingRow < 6 /\ At(s, blackKingRow + 2, c) = BLACK_PAWN})
    IN  whiteShield - blackShield
        + (IF isInCheck(s, TRUE) THEN -500 ELSE 0)
        + (IF isInCheck(s, FALSE) THEN 500 ELSE 0)
        + (IF wk = 0 THEN 0 ELSE IF whiteKingRow >= 6 THEN 50 ELSE -100)
        + (IF bk = 0 THEN 0 ELSE IF blackKingRow <= 1 THEN -50 ELSE 100)

isScholarsMateThreat(s) == At(s, 3, 7) = WHITE_QUEEN /\ At(s, 4, 2) = WHITE_BISHOP

evaluateScholarsMateDefense(s) ==
    IF s.isWhiteTurn THEN 0
    ELSE (IF At(s, 2, 5) = BLACK_KNIGHT THEN 300 ELSE 0)
         + (IF isScholarsMateThreat(s)
            THEN -1000 + (IF At(s, 3, 7) = WHITE_QUEEN /\ At(s, 2, 5) = BLACK_KNIGHT
                          THEN 2000 ELSE 0)
            ELSE 0)

(* The score evaluateBoard computes on a cache miss. *)
ComputeEvaluation(s) ==
    LET occupied == {i \in Squares : s.board[i] # EMPTY}
        pieceScore == [i \in occupied |->
            LET piece == s.board[i]
                pieceValue == PieceValueOf(piece)
                positionValue == PositionValueOf(piece, RowOf(i), ColOf(i))
                sign == IF isupper(piece) THEN 1 ELSE -1
            IN  sign * (pieceValue + positionValue
                        - (IF isPieceUnderAttack(s, RowOf(i), ColOf(i))
                           THEN pieceValue \div 3 ELSE 0))]
        attackCount == [i \in occupied |->
            IF isupper(s.board[i]) THEN AttacksBy(s, i) ELSE -AttacksBy(s, i)]
        centre == [i \in {Idx(3, 3), Idx(3, 4), Idx(4, 3), Idx(4, 4)} |->
            IF isupper(s.board[i]) THEN 20 ELSE IF islower(s.board[i]) THEN -20 ELSE 0]
    IN  SumOver(pieceScore, occupied)
        + SumOver(centre, {Idx(3, 3), Idx(3, 4), Idx(4, 3), Idx(4, 4)})
        + SumOver(attackCount, occupied) * 2
        + evaluatePawnStructure(s)
        + evaluateKingSafety(s)
        + (IF isInCheck(s, TRUE) THEN -200 ELSE 0)
        + (IF isInCheck(s, FALSE) THEN 200 ELSE 0)
        + evaluateScholarsMateDefense(s)

(***************************************************************************)
(* The evaluation cache: evalCache[0 .. 63] and cacheIndex.  A cache is    *)
(* a function from slot numbers to entries [isValid, isWhiteTurn, board,   *)
(* evaluation].                                                            *)
(***************************************************************************)
CACHE_SIZE == 64
INT_MIN == -2147483647 - 1

EmptyCache ==
    [i \in 0 .. (CACHE_SIZE - 1) |->
        [isValid |-> FALSE, isWhiteTurn |-> FALSE, board |-> <<>>, evaluation |-> 0]]

(* A variant of getCachedEvaluation that compares the boards only. *)
getCachedEvaluationIgnoringTurn(cache, s) ==
    LET hits == {i \in 0 .. (CACHE_SIZE - 1) : cache[i].isValid /\ cache[i].board = s.board}
    IN  IF hits = {} THEN INT_MIN
        ELSE cache[CHOOSE i \in hits : \A j \in hits : i <= j].evaluation

getCachedEvaluation(cache, s) ==
    LET hits == {i \in 0 .. (CACHE_SIZE - 1) :
                    /\ cache[i].isValid
                    /\ cache[i].isWhiteTurn = s.isWhiteTurn
                    /\ cache[i].board = s.board}
    IN  IF hits = {} THEN INT_MIN
        ELSE cache[CHOOSE i \in hits : \A j \in hits : i <= j].evaluation

cacheEvaluation(cache, index, s, evaluation) ==
    [cache EXCEPT ![index % CACHE_SIZE] =
        [isValid |-> TRUE, isWhiteTurn |-> s.isWhiteTurn, board |-> s.board,
         evaluation |-> evaluation]]

(* evaluateBoard after a cache miss, score being the score computed. *)
EvaluatedAndCached(cache, index, s, score) ==
    [score |-> score, cache |-> cacheEvaluation(cache, index, s, score), index |-> index + 1]

(* evaluateBoard after getCachedEvaluation has returned cachedEval. *)
EvaluatedWith(cachedEval, cache, index, s) ==
    IF cachedEval # INT_MIN
    THEN [score |-> cachedEval, cache |-> cache, index |-> index]
    ELSE EvaluatedAndCached(cache, index, s, ComputeEvaluation(s))

(* evaluateBoard: the score, the cache and cacheIndex after the call. *)
evaluateBoard(cache, index, s) ==
    EvaluatedWith(getCachedEvaluation(cache, s), cache, index, s)

(***************************************************************************)
(* Move ordering and the sorted move list                                  *)
(***************************************************************************)
MvvValue(piece) ==
    CASE toupper(piece) = "P" -> 100
      [] toupper(piece) \in {"N", "B"} -> 300
      [] toupper(piece) = "R" -> 500
      [] toupper(piece) = "Q" -> 900
      [] OTHER -> 0

scoreMoveForOrdering(s, move) ==
    LET fromRow == move[1]
        fromCol == move[2]
        toRow == move[3]
        toCol == move[4]
        movingPiece == At(s, fromRow, fromCol)
        capturedPiece == At(s, toRow, toCol)
        moved == ApplyRaw(s, fromRow, fromCol, toRow, toCol)
    IN  (IF capturedPiece # EMPTY
         THEN MvvValue(capturedPiece) - (MvvValue(movingPiece) \div 10) ELSE 0)
        + (IF movingPiece = BLACK_KNIGHT /\ toRow = 3 /\ toCol = 7 THEN 5000 ELSE 0)
        + (IF movingPiece = BLACK_KNIGHT /\ toRow = 2 /\ toCol = 5 THEN 1000 ELSE 0)
        + (IF isInCheck(moved, ~s.isWhiteTurn) THEN 50 ELSE 0)
        + (IF ~s.isWhiteTurn /\ isScholarsMateThreat(moved) THEN 2000 ELSE 0)
        + (IF toRow >= 3 /\ toRow <= 4 /\ toCol >= 3 /\ toCol <= 4 THEN 10 ELSE 0)
        + (IF isPieceUnderAttack(s, fromRow, fromCol) THEN 20 ELSE 0)

(* generateAllMoves: moveList.moves and moveList.scores as one sequence of *)
(* [move, score] records.                                                  *)
ScoredMoves(s, moves) ==
    [k \in 1 .. Len(moves) |->
        [move |-> moves[k], score |-> scoreMoveForOrdering(s, moves[k])]]

generateAllMoves(s) == ScoredMoves(s, GeneratedMoves(s))

(***************************************************************************)
(* The queries as the procedures they are.  Each operator below takes the  *)
(* position, writes to it where the source writes to *state, and hands     *)
(* back what the function returns together with the position it leaves     *)
(* behind.                                                                 *)
(***************************************************************************)
Ret(value, s) == [value |-> value, state |-> s]

(* return !r; *)
Negated(r) == Ret(~r.value, r.state)

(* The switch of isSquareAttacked for the piece on square i. *)
AttackSwitch(s, i, row, col) ==
    LET piece == s.board[i]
        pieceType == toupper(piece)
    IN  CASE pieceType = WHITE_PAWN ->
               abs(ColOf(i) - col) = 1 /\ row = RowOf(i) + (IF isupper(piece) THEN -1 ELSE 1)
          [] pieceType = WHITE_ROOK ->
               (RowOf(i) = row \/ ColOf(i) = col)
               /\ isValidRookMove(s, RowOf(i), ColOf(i), row, col)
          [] pieceType = WHITE_KNIGHT ->
               isValidKnightMove(s, RowOf(i), ColOf(i), row, col)
          [] pieceType = WHITE_BISHOP ->
               abs(RowOf(i) - row) = abs(ColOf(i) - col)
               /\ isValidBishopMove(s, RowOf(i), ColOf(i), row, col)
          [] pieceType = WHITE_QUEEN ->
               (RowOf(i) = row \/ ColOf(i) = col \/ abs(RowOf(i) - row) = abs(ColOf(i) - col))
               /\ isValidQueenMove(s, RowOf(i), ColOf(i), row, col)
          [] pieceType = WHITE_KING ->
               abs(RowOf(i) - row) <= 1 /\ abs(ColOf(i) - col) <= 1
               /\ (RowOf(i) # row \/ ColOf(i) # col)
          [] OTHER -> FALSE

RECURSIVE isSquareAttackedOver(_, _, _, _, _, _)
isSquareAttackedRest(r, row, col, byWhite, lo, hi) ==
    IF r.value THEN r
    ELSE isSquareAttackedOver(r.state, row, col, byWhite, lo, hi)

(* The loops of isSquareAttacked over the squares lo .. hi, numbered as    *)
(* Idx numbers them, which is the loops' order: the turn is set to byWhite *)
(* around the switch and set back after it.  The range is halved so that   *)
(* the evaluation nests to the logarithm of its length.                    *)
isSquareAttackedOver(s, row, col, byWhite, lo, hi) ==
    IF lo = hi
    THEN IF s.board[lo] # EMPTY
            /\ ((byWhite /\ isupper(s.board[lo])) \/ (~byWhite /\ islower(s.board[lo])))
         THEN Ret(AttackSwitch([s EXCEPT !.isWhiteTurn = byWhite], lo, row, col),
                  [[s EXCEPT !.isWhiteTurn = byWhite] EXCEPT !.isWhiteTurn = s.isWhiteTurn])
         ELSE Ret(FALSE, s)
    ELSE isSquareAttackedRest(isSquareAttackedOver(s, row, col, byWhite, lo, (lo + hi) \div 2),
                              row, col, byWhite, ((lo + hi) \div 2) + 1, hi)

isSquareAttackedRun(s, row, col, byWhite) ==
    isSquareAttackedOver(s, row, col, byWhite, 1, BOARD_SIZE * BOARD_SIZE)

isInCheckAt(s, k, isWhiteKing) ==
    IF k = 0 THEN Ret(FALSE, s)
    ELSE isSquareAttackedRun(s, RowOf(k), ColOf(k), ~isWhiteKing)

isInCheckRun(s, isWhiteKing) ==
    isInCheckAt(s, FindKing(s, IF isWhiteKing THEN WHITE_KING ELSE BLACK_KING), isWhiteKing)

(* A variant of the last loop of isValidCastling that asks isSquareAttacked *)
(* about the king's destination only.                                      *)
CastlingPathDestinationOnly(s, fromRow, col, endCol, step, isWhite) ==
    Negated(isSquareAttackedRun(s, fromRow, endCol, ~isWhite))

RECURSIVE CastlingPathFrom(_, _, _, _, _, _)
RECURSIVE CastlingPathAfter(_, _, _, _, _, _)
(* The last loop of isValidCastling after isSquareAttacked returned r for  *)
(* the square in column col.                                               *)
CastlingPathAfter(r, fromRow, col, endCol, step, isWhite) ==
    IF r.value THEN Ret(FALSE, r.state)
    ELSE CastlingPathFrom(r.state, fromRow, col + step, endCol, step, isWhite)

(* The last loop of isValidCastling: isSquareAttacked on the squares from  *)
(* col to endCol.                                                          *)
CastlingPathFrom(s, fromRow, col, endCol, step, isWhite) ==
    IF col = endCol + step THEN Ret(TRUE, s)
    ELSE CastlingPathAfter(isSquareAttackedRun(s, fromRow, col, ~isWhite),
                           fromRow, col, endCol, step, isWhite)

(* isValidCastling after its isInCheck call returned inCheck. *)
CastlingAfterCheck(inCheck, fromRow, fromCol, toCol, isWhite) ==
    LET s == inCheck.state
        isKingSide == toCol > fromCol
        rookCol == IF isKingSide THEN 7 ELSE 0
        expectedRook == IF isWhite THEN WHITE_ROOK ELSE BLACK_ROOK
        step == IF isKingSide THEN 1 ELSE -1
    IN  IF inCheck.value THEN Ret(FALSE, s)
        ELSE IF isWhite /\ isKingSide /\ ~s.canWhiteCastleKingside THEN Ret(FALSE, s)
        ELSE IF isWhite /\ ~isKingSide /\ ~s.canWhiteCastleQueenside THEN Ret(FALSE, s)
        ELSE IF ~isWhite /\ isKingSide /\ ~s.canBlackCastleKingside THEN Ret(FALSE, s)
        ELSE IF ~isWhite /\ ~isKingSide /\ ~s.canBlackCastleQueenside THEN Ret(FALSE, s)
        ELSE IF At(s, fromRow, rookCol) # expectedRook THEN Ret(FALSE, s)
        ELSE IF \E k \in 1 .. (abs(rookCol - fromCol) - 1) :
                    At(s, fromRow, fromCol + k * step) # EMPTY
        THEN Ret(FALSE, s)
        ELSE CastlingPathFrom(s, fromRow, fromCol, toCol, step, isWhite)

isValidCastlingRun(s, fromRow, fromCol, toRow, toCol) ==
    IF \/ toupper(At(s, fromRow, fromCol)) # WHITE_KING
       \/ fromRow # (IF isupper(At(s, fromRow, fromCol)) THEN 7 ELSE 0)
       \/ fromCol # 4
    THEN Ret(FALSE, s)
    ELSE IF abs(toCol - fromCol) # 2 \/ toRow # fromRow THEN Ret(FALSE, s)
    ELSE CastlingAfterCheck(isInCheckRun(s, isupper(At(s, fromRow, fromCol))),
                            fromRow, fromCol, toCol, isupper(At(s, fromRow, fromCol)))

isValidKingMoveRun(s, fromRow, fromCol, toRow, toCol) ==
    IF abs(toRow - fromRow) <= 1 /\ abs(toCol - fromCol) <= 1 THEN Ret(TRUE, s)
    ELSE IF abs(fromCol - toCol) = 2 /\ fromRow = toRow
    THEN isValidCastlingRun(s, fromRow, fromCol, toRow, toCol)
    ELSE Ret(FALSE, s)

(* A variant of doesMovePutKingInCheck that undoes the simulated move and  *)
(* reports the king safe whatever isInCheck returned.                      *)
UndoAfterCheckKingSafe(inCheck, fromRow, fromCol, toRow, toCol, tempPiece) ==
    Ret(FALSE, UndoRaw(inCheck.state, fromRow, fromCol, toRow, toCol, tempPiece))

(* doesMovePutKingInCheck after its isInCheck call returned inCheck: the   *)
(* undo of the simulated move.                                             *)
UndoAfterCheck(inCheck, fromRow, fromCol, toRow, toCol, tempPiece) ==
    Ret(inCheck.value, UndoRaw(inCheck.state, fromRow, fromCol, toRow, toCol, tempPiece))

doesMovePutKingInCheckRun(s, fromRow, fromCol, toRow, toCol) ==
    UndoAfterCheck(isInCheckRun(ApplyRaw(s, fromRow, fromCol, toRow, toCol), s.isWhiteTurn),
                   fromRow, fromCol, toRow, toCol, At(s, toRow, toCol))

(* A variant of RejectedAtOnce that lets a move onto a piece of the        *)
(* mover's own colour through.                                             *)
RejectedAtOnceButForOwnTarget(s, fromRow, fromCol, toRow, toCol) ==
    IF \/ fromRow < 0 \/ fromRow >= BOARD_SIZE \/ fromCol < 0 \/ fromCol >= BOARD_SIZE
       \/ toRow < 0 \/ toRow >= BOARD_SIZE \/ toCol < 0 \/ toCol >= BOARD_SIZE
    THEN TRUE
    ELSE IF At(s, fromRow, fromCol) = EMPTY THEN TRUE
    ELSE IF s.isWhiteTurn /\ ~isupper(At(s, fromRow, fromCol)) THEN TRUE
    ELSE IF ~s.isWhiteTurn /\ isupper(At(s, fromRow, fromCol)) THEN TRUE
    ELSE FALSE

(* The returns of isValidMove that come before the switch on the piece. *)
RejectedAtOnce(s, fromRow, fromCol, toRow, toCol) ==
    IF \/ fromRow < 0 \/ fromRow >= BOARD_SIZE \/ fromCol < 0 \/ fromCol >= BOARD_SIZE
       \/ toRow < 0 \/ toRow >= BOARD_SIZE \/ toCol < 0 \/ toCol >= BOARD_SIZE
    THEN TRUE
    ELSE IF At(s, fromRow, fromCol) = EMPTY THEN TRUE
    ELSE IF s.isWhiteTurn /\ ~isupper(At(s, fromRow, fromCol)) THEN TRUE
    ELSE IF ~s.isWhiteTurn /\ isupper(At(s, fromRow, fromCol)) THEN TRUE
    ELSE IF s.isWhiteTurn /\ isupper(At(s, toRow, toCol)) THEN TRUE
    ELSE IF ~s.isWhiteTurn /\ islower(At(s, toRow, toCol)) THEN TRUE
    ELSE FALSE

(* The switch of isValidMove: only the king's predicate calls functions    *)
(* that write to the position.                                             *)
validPieceMoveRun(s, fromRow, fromCol, toRow, toCol) ==
    IF toupper(At(s, fromRow, fromCol)) = WHITE_KING
    THEN isValidKingMoveRun(s, fromRow, fromCol, toRow, toCol)
    ELSE Ret(validPieceMove(s, fromRow, fromCol, toRow, toCol), s)

(* isValidMove after getPinInfo returned pinInfo. *)
AfterPinInfo(s, pinInfo, fromRow, fromCol, toRow, toCol) ==
    IF pinInfo.isPinned /\ ~isMoveAlongPinRay(fromRow, fromCol, toRow, toCol, pinInfo)
    THEN Ret(FALSE, s)
    ELSE Negated(doesMovePutKingInCheckRun(s, fromRow, fromCol, toRow, toCol))

(* isValidMove after the switch returned pattern. *)
AfterPieceMove(pattern, fromRow, fromCol, toRow, toCol) ==
    IF ~pattern.value THEN Ret(FALSE, pattern.state)
    ELSE AfterPinInfo(pattern.state, getPinInfo(pattern.state, fromRow, fromCol),
                      fromRow, fromCol, toRow, toCol)

isValidMoveRun(s, fromRow, fromCol, toRow, toCol) ==
    IF RejectedAtOnce(s, fromRow, fromCol, toRow, toCol) THEN Ret(FALSE, s)
    ELSE AfterPieceMove(validPieceMoveRun(s, fromRow, fromCol, toRow, toCol),
                        fromRow, fromCol, toRow, toCol)

(* A variant of the early exit of isPieceUnderAttack that returns true     *)
(* with the turn still set to the attacking piece's colour.                *)
AttackerFoundTurnLeft(s, originalTurn) == Ret(TRUE, s)

(* state->isWhiteTurn = originalTurn; return true; *)
AttackerFound(s, originalTurn) == Ret(TRUE, [s EXCEPT !.isWhiteTurn = originalTurn])

(* The body of isPieceUnderAttack's inner loop after isValidMove returned   *)
(* r for an enemy piece.                                                   *)
isPieceUnderAttackAfterMove(r, originalTurn) ==
    IF r.value THEN AttackerFound(r.state, originalTurn)
    ELSE Ret(FALSE, [r.state EXCEPT !.isWhiteTurn = originalTurn])

RECURSIVE isPieceUnderAttackOver(_, _, _, _, _, _)
isPieceUnderAttackRest(r, row, col, isWhitePiece, lo, hi) ==
    IF r.value THEN r
    ELSE isPieceUnderAttackOver(r.state, row, col, isWhitePiece, lo, hi)

(* The loops of isPieceUnderAttack over the squares lo .. hi, numbered as  *)
(* Idx numbers them, which is the loops' order; the range is halved so     *)
(* that the evaluation nests to the logarithm of its length.               *)
isPieceUnderAttackOver(s, row, col, isWhitePiece, lo, hi) ==
    IF lo = hi
    THEN IF s.board[lo] # EMPTY
            /\ ((isWhitePiece /\ islower(s.board[lo])) \/ (~isWhitePiece /\ isupper(s.board[lo])))
         THEN isPieceUnderAttackAfterMove(
                  isValidMoveRun([s EXCEPT !.isWhiteTurn = isupper(s.board[lo])],
                                 RowOf(lo), ColOf(lo), row, col),
                  s.isWhiteTurn)
         ELSE Ret(FALSE, s)
    ELSE isPieceUnderAttackRest(
             isPieceUnderAttackOver(s, row, col, isWhitePiece, lo, (lo + hi) \div 2),
             row, col, isWhitePiece, ((lo + hi) \div 2) + 1, hi)

isPieceUnderAttackRun(s, row, col) ==
    IF At(s, row, col) = EMPTY THEN Ret(FALSE, s)
    ELSE isPieceUnderAttackOver(s, row, col, isupper(At(s, row, col)),
                                1, BOARD_SIZE * BOARD_SIZE)

RECURSIVE AnyValidIn(_, _, _)
RECURSIVE AnyValidAfter(_, _, _)
AnyValidAfter(r, moves, k) ==
    IF r.value THEN r
    ELSE AnyValidIn(r.state, moves, k + 1)

(* isValidMove on moves[k], moves[k + 1], ... up to the first one it       *)
(* accepts.                                                                *)
AnyValidIn(s, moves, k) ==
    IF k > Len(moves) THEN Ret(FALSE, s)
    ELSE AnyValidAfter(isValidMoveRun(s, moves[k][1], moves[k][2], moves[k][3], moves[k][4]),
                       moves, k)

RECURSIVE AnyValidTo(_, _, _, _, _)
AnyValidToRest(r, fromRow, fromCol, lo, hi) ==
    IF r.value THEN r
    ELSE AnyValidTo(r.state, fromRow, fromCol, lo, hi)

(* The two inner loops of isCheckmate and isStalemate for the piece on     *)
(* (fromRow, fromCol) over the targets lo .. hi, numbered as Idx numbers   *)
(* them, which is the loops' order, up to the first move isValidMove       *)
(* accepts.  The range is halved so that the evaluation nests to the       *)
(* logarithm of its length.                                                *)
AnyValidTo(s, fromRow, fromCol, lo, hi) ==
    IF lo = hi THEN isValidMoveRun(s, fromRow, fromCol, RowOf(lo), ColOf(lo))
    ELSE AnyValidToRest(AnyValidTo(s, fromRow, fromCol, lo, (lo + hi) \div 2),
                        fromRow, fromCol, ((lo + hi) \div 2) + 1, hi)

RECURSIVE AnyValidFrom(_, _, _, _, _)
AnyValidFromRest(r, forWhite, skipKing, lo, hi) ==
    IF r.value THEN r
    ELSE AnyValidFrom(r.state, forWhite, skipKing, lo, hi)

(* The two outer loops of isCheckmate and isStalemate over the squares     *)
(* lo .. hi; skipKing is isCheckmate's 'continue' for the king.            *)
AnyValidFrom(s, forWhite, skipKing, lo, hi) ==
    IF lo = hi
    THEN IF /\ \/ (forWhite /\ isupper(s.board[lo]))
               \/ (~forWhite /\ islower(s.board[lo]))
            /\ ~(skipKing /\ toupper(s.board[lo]) = WHITE_KING)
         THEN AnyValidTo(s, RowOf(lo), ColOf(lo), 1, BOARD_SIZE * BOARD_SIZE)
         ELSE Ret(FALSE, s)
    ELSE AnyValidFromRest(AnyValidFrom(s, forWhite, skipKing, lo, (lo + hi) \div 2),
                          forWhite, skipKing, ((lo + hi) \div 2) + 1, hi)

(* The king's moves isCheckmate tries first: dr, dc over -1 .. 1 in the    *)
(* loops' order, those on the board.                                       *)
KingSteps(k) ==
    SelectSeq([n \in 1 .. 9 |-> <<RowOf(k), ColOf(k),
                                  RowOf(k) + ((n - 1) \div 3) - 1,
                                  ColOf(k) + ((n - 1) % 3) - 1>>],
              LAMBDA m : /\ ~(m[3] = m[1] /\ m[4] = m[2])
                         /\ m[3] >= 0 /\ m[3] < BOARD_SIZE
                         /\ m[4] >= 0 /\ m[4] < BOARD_SIZE)

(* isCheckmate after the king's moves were tried. *)
CheckmateAfterKing(king, isWhiteKing) ==
    IF king.value THEN Ret(FALSE, king.state)
    ELSE Negated(AnyValidFrom(king.state, isWhiteKing, TRUE, 1, BOARD_SIZE * BOARD_SIZE))

(* isCheckmate after its isInCheck call returned inCheck. *)
CheckmateAfterCheck(inCheck, k, isWhiteKing) ==
    IF ~inCheck.value THEN Ret(FALSE, inCheck.state)
    ELSE CheckmateAfterKing(IF k # 0 THEN AnyValidIn(inCheck.state, KingSteps(k), 1)
                            ELSE Ret(FALSE, inCheck.state),
                            isWhiteKing)

isCheckmateRun(s) ==
    CheckmateAfterCheck(isInCheckRun(s, s.isWhiteTurn),
                        FindKing(s, IF s.isWhiteTurn THEN WHITE_KING ELSE BLACK_KING),
                        s.isWhiteTurn)

(* isStalemate after its isInCheck call returned inCheck. *)
StalemateAfterCheck(inCheck) ==
    IF inCheck.value THEN Ret(FALSE, inCheck.state)
    ELSE Negated(AnyValidFrom(inCheck.state, inCheck.state.isWhiteTurn, FALSE,
                             1, BOARD_SIZE * BOARD_SIZE))

isStalemateRun(s) == StalemateAfterCheck(isInCheckRun(s, s.isWhiteTurn))

(* scoreMoveForOrdering after isPieceUnderAttack returned attacked. *)
ScoreAfterAttack(attacked, score) ==
    Ret(score + (IF attacked.value THEN 20 ELSE 0), attacked.state)

(* scoreMoveForOrdering after its isInCheck call on the simulated move     *)
(* returned inCheck: the undo, the bonuses and the isPieceUnderAttack call. *)
ScoreAfterCheck(inCheck, score, fromRow, fromCol, toRow, toCol, tempPiece) ==
    ScoreAfterAttack(
        isPieceUnderAttackRun(
            UndoRaw(inCheck.state, fromRow, fromCol, toRow, toCol, tempPiece),
            fromRow, fromCol),
        score + (IF inCheck.value THEN 50 ELSE 0)
              + (IF ~inCheck.state.isWhiteTurn /\ isScholarsMateThreat(inCheck.state)
                 THEN 2000 ELSE 0)
              + (IF toRow >= 3 /\ toRow <= 4 /\ toCol >= 3 /\ toCol <= 4 THEN 10 ELSE 0))

scoreMoveForOrderingRun(s, move) ==
    ScoreAfterCheck(isInCheckRun(ApplyRaw(s, move[1], move[2], move[3], move[4]),
                                 ~s.isWhiteTurn),
                    (IF At(s, move[3], move[4]) # EMPTY
                     THEN MvvValue(At(s, move[3], move[4]))
                          - (MvvValue(At(s, move[1], move[2])) \div 10)
                     ELSE 0)
                    + (IF At(s, move[1], move[2]) = BLACK_KNIGHT /\ move[3] = 3 /\ move[4] = 7
                       THEN 5000 ELSE 0)
                    + (IF At(s, move[1], move[2]) = BLACK_KNIGHT /\ move[3] = 2 /\ move[4] = 5
                       THEN 1000 ELSE 0),
                    move[1], move[2], move[3], move[4], At(s, move[3], move[4]))

(* The body of generateAllMoves' innermost loop for a move isValidMove     *)
(* accepted while there is room: scored is what scoreMoveForOrdering       *)
(* returned for it.                                                        *)
MoveKept(scored, list, move) ==
    Ret(Append(list, [move |-> move, score |-> scored.value]), scored.state)

(* The body of generateAllMoves' innermost loop once isValidMove returned  *)
(* valid for the move to (toRow, toCol).                                   *)
GenerateAfterMove(valid, list, fromRow, fromCol, toRow, toCol) ==
    IF valid.value /\ Len(list) < MOVELIST_CAPACITY
    THEN MoveKept(scoreMoveForOrderingRun(valid.state, <<fromRow, fromCol, toRow, toCol>>),
                  list, <<fromRow, fromCol, toRow, toCol>>)
    ELSE Ret(list, valid.state)

RECURSIVE GenerateTo(_, _, _, _, _)
(* The rest of the two inner loops once their first part has left acc. *)
GenerateToRest(acc, fromRow, fromCol, lo, hi) ==
    IF Len(acc.value) > MOVELIST_CAPACITY THEN acc
    ELSE GenerateTo(acc, fromRow, fromCol, lo, hi)

(* The two inner loops of generateAllMoves over the targets lo .. hi,      *)
(* numbered as Idx numbers them, which is the loops' order; acc.value is   *)
(* the list so far.  The range is halved so that the evaluation nests to   *)
(* the logarithm of its length.                                            *)
GenerateTo(acc, fromRow, fromCol, lo, hi) ==
    IF lo = hi
    THEN GenerateAfterMove(isValidMoveRun(acc.state, fromRow, fromCol, RowOf(lo), ColOf(lo)),
                           acc.value, fromRow, fromCol, RowOf(lo), ColOf(lo))
    ELSE GenerateToRest(GenerateTo(acc, fromRow, fromCol, lo, (lo + hi) \div 2),
                        fromRow, fromCol, ((lo + hi) \div 2) + 1, hi)

RECURSIVE GenerateFrom(_, _, _)
GenerateFromRest(acc, lo, hi) ==
    IF Len(acc.value) > MOVELIST_CAPACITY THEN acc
    ELSE GenerateFrom(acc, lo, hi)

(* The two outer loops of generateAllMoves over the squares lo .. hi: the  *)
(* pieces of the side to move.                                             *)
GenerateFrom(acc, lo, hi) ==
    IF lo = hi
    THEN IF \/ (acc.state.isWhiteTurn /\ isupper(acc.state.board[lo]))
            \/ (~acc.state.isWhiteTurn /\ islower(acc.state.board[lo]))
         THEN GenerateTo(acc, RowOf(lo), ColOf(lo), 1, BOARD_SIZE * BOARD_SIZE)
         ELSE acc
    ELSE GenerateFromRest(GenerateFrom(acc, lo, (lo + hi) \div 2),
                          ((lo + hi) \div 2) + 1, hi)

generateAllMovesRun(s) == GenerateFrom(Ret(<<>>, s), 1, BOARD_SIZE * BOARD_SIZE)

RECURSIVE SortInner(_, _, _)
(* for (j = ...; j < count; j++) if (scores[j] > scores[i]) swap(i, j) *)
SortInner(list, i, j) ==
    IF j > Len(list) THEN list
    ELSE IF list[j].score > list[i].score
    THEN SortInner([list EXCEPT ![i] = list[j], ![j] = list[i]], i, j + 1)
    ELSE SortInner(list, i, j + 1)

RECURSIVE SortOuter(_, _)
SortOuter(list, i) ==
    IF i >= Len(list) THEN list
    ELSE SortOuter(SortInner(list, i, i + 1), i + 1)

(* The move list after the sorting loops of minimax and getAIMove. *)
MovesOf(list) == [k \in 1 .. Len(list) |-> list[k].move]

SortedMoves(s) == MovesOf(SortOuter(generateAllMoves(s), 1))

(***************************************************************************)
(* The opening book and the emergency move                                 *)
(***************************************************************************)
getOpeningBookMove(s) ==
    LET n == s.fullmoveNumber
        w == s.isWhiteTurn
    IN  IF n = 1 /\ w /\ At(s, 6, 4) = WHITE_PAWN /\ At(s, 4, 4) = EMPTY THEN 6444
        ELSE IF n = 1 /\ w /\ At(s, 6, 3) = WHITE_PAWN /\ At(s, 4, 3) = EMPTY THEN 6343
        ELSE IF n = 1 /\ w /\ At(s, 7, 6) = WHITE_KNIGHT /\ At(s, 5, 5) = EMPTY THEN 7655
        ELSE IF n = 1 /\ ~w /\ At(s, 4, 4) = WHITE_PAWN /\ At(s, 3, 4) = EMPTY
                /\ At(s, 1, 4) = BLACK_PAWN THEN 1434
        ELSE IF n = 1 /\ ~w /\ At(s, 4, 3) = WHITE_PAWN
                /\ At(s, 1, 3) = BLACK_PAWN /\ At(s, 3, 3) = EMPTY THEN 1333
        ELSE IF n = 1 /\ ~w /\ At(s, 5, 5) = WHITE_KNIGHT
                /\ At(s, 1, 3) = BLACK_PAWN /\ At(s, 3, 3) = EMPTY THEN 1333
        ELSE IF n = 2 /\ w /\ At(s, 3, 4) = BLACK_PAWN
                /\ At(s, 7, 6) = WHITE_KNIGHT /\ At(s, 5, 5) = EMPTY THEN 7655
        ELSE IF n = 2 /\ w /\ At(s, 3, 3) = BLACK_PAWN
                /\ At(s, 7, 1) = WHITE_KNIGHT /\ At(s, 5, 2) = EMPTY THEN 7152
        ELSE IF n = 2 /\ ~w /\ At(s, 4, 2) = WHITE_BISHOP
                /\ At(s, 0, 6) = BLACK_KNIGHT /\ At(s, 2, 5) = EMPTY THEN 625
        ELSE IF n = 2 /\ ~w /\ At(s, 5, 5) = WHITE_KNIGHT
                /\ At(s, 0, 6) = BLACK_KNIGHT /\ At(s, 2, 5) = EMPTY THEN 625
        ELSE IF n = 2 /\ ~w /\ At(s, 5, 2) = WHITE_KNIGHT
                /\ At(s, 0, 1) = BLACK_KNIGHT /\ At(s, 2, 2) = EMPTY THEN 122
        ELSE IF n = 3 /\ ~w /\ At(s, 3, 7) = WHITE_QUEEN /\ At(s, 2, 5) = BLACK_KNIGHT
        THEN 2537
        ELSE IF n = 3 /\ ~w /\ At(s, 4, 2) = WHITE_BISHOP /\ At(s, 2, 5) = EMPTY
                /\ At(s, 0, 6) = BLACK_KNIGHT THEN 625
        ELSE -1

NO_MOVE == <<-1, -1, -1, -1>>

(* A variant of getEmergencyMove that returns the first piece of the side  *)
(* to move staying where it is instead of the sentinel.                    *)
FirstMoveOr(moves, none) == IF moves = <<>> THEN none ELSE moves[1]

getEmergencyMoveNeverEmpty(s) ==
    LET i == CHOOSE x \in OwnSquares(s) : \A y \in OwnSquares(s) : x <= y
    IN  FirstMoveOr(GeneratedMoves(s), <<RowOf(i), ColOf(i), RowOf(i), ColOf(i)>>)

getEmergencyMove(s) == FirstMoveOr(GeneratedMoves(s), NO_MOVE)

(***************************************************************************)
(* The FEN codec.  A C string is a sequence of one-character strings; the  *)
(* terminating '\0' is what CharAt reads at and past the end.              *)
(***************************************************************************)
NUL == ""

DigitChars == <<"0", "1", "2", "3", "4", "5", "6", "7", "8", "9">>
FileChars == <<"a", "b", "c", "d", "e", "f", "g", "h">>

isdigit(ch) == \E d \in 1 .. 10 : DigitChars[d] = ch
(* ch - '0' for a digit ch *)
DigitValue(ch) == (CHOOSE d \in 1 .. 10 : DigitChars[d] = ch) - 1
(* ch - 'a' for ch in 'a' .. 'h' *)
FileValue(ch) == (CHOOSE d \in 1 .. 8 : FileChars[d] = ch) - 1

RECURSIVE IntToStr(_)
(* sprintf(buf, "%d", n) for n >= 0 *)
IntToStr(n) ==
    IF n < 10 THEN <<DigitChars[n + 1]>>
    ELSE IntToStr(n \div 10) \o <<DigitChars[(n % 10) + 1]>>

RECURSIVE FenRank(_, _, _, _)
(* The inner loop of gameStateToFEN over the files of one rank, from file  *)
(* on, with emptyCount empty squares pending.                              *)
FenRank(s, rank, file, emptyCount) ==
    IF file >= BOARD_SIZE
    THEN IF emptyCount > 0 THEN <<DigitChars[emptyCount + 1]>> ELSE <<>>
    ELSE LET piece == At(s, rank, file)
         IN  IF piece = EMPTY THEN FenRank(s, rank, file + 1, emptyCount + 1)
             ELSE (IF emptyCount > 0 THEN <<DigitChars[emptyCount + 1]>> ELSE <<>>)
                  \o <<piece>> \o FenRank(s, rank, file + 1, 0)

RECURSIVE FenPlacement(_, _)
FenPlacement(s, rank) ==
    IF rank >= BOARD_SIZE THEN <<>>
    ELSE FenRank(s, rank, 0, 0)
         \o (IF rank < BOARD_SIZE - 1 THEN <<"/">> ELSE <<>>)
         \o FenPlacement(s, rank + 1)

gameStateToFEN(s) ==
    LET castling == (IF s.canWhiteCastleKingside THEN <<"K">> ELSE <<>>)
                    \o (IF s.canWhiteCastleQueenside THEN <<"Q">> ELSE <<>>)
                    \o (IF s.canBlackCastleKingside THEN <<"k">> ELSE <<>>)
                    \o (IF s.canBlackCastleQueenside THEN <<"q">> ELSE <<>>)
    IN  FenPlacement(s, 0)
        \o <<" ">> \o <<IF s.isWhiteTurn THEN "w" ELSE "b">>
        \o <<" ">> \o (IF castling = <<>> THEN <<"-">> ELSE castling)
        \o <<" ">>
        \o (IF s.enPassantTargetRow # -1 /\ s.enPassantTargetCol # -1
            THEN <<FileChars[s.enPassantTargetCol + 1], DigitChars[(8 - s.enPassantTargetRow) + 1]>>
            ELSE <<"-">>)
        \o <<" ">> \o IntToStr(s.halfmoveClock)
        \o <<" ">> \o IntToStr(s.fullmoveNumber)

(* The character ptr points at, with ptr counted from 1. *)
CharAt(fen, ptr) == IF ptr >= 1 /\ ptr <= Len(fen) THEN fen[ptr] ELSE NUL

(* The optional skip of one blank between two fields. *)
SkipSpace(fen, ptr) == IF CharAt(fen, ptr) = " " THEN ptr + 1 ELSE ptr

EmptyBoard == [i \in Squares |-> EMPTY]

(* One turn of the first while loop of fenToGameState; done says that the  *)
(* loop's condition has failed.                                            *)
ParsePlacementStep(fen, ch, st) ==
    IF ch = NUL \/ ch = " " THEN [st EXCEPT !.done = TRUE]
    ELSE IF ch = "/" THEN [st EXCEPT !.ptr = @ + 1, !.rank = @ + 1, !.file = 0]
    ELSE IF isdigit(ch) THEN [st EXCEPT !.ptr = @ + 1, !.file = @ + DigitValue(ch)]
    ELSE IF st.rank < BOARD_SIZE /\ st.file < BOARD_SIZE
    THEN [st EXCEPT !.ptr = @ + 1, !.file = @ + 1, !.board[Idx(st.rank, st.file)] = ch]
    ELSE [st EXCEPT !.ptr = @ + 1]

RECURSIVE ParsePlacementTurns(_, _, _)
ParsePlacementRest(fen, st, n) ==
    IF st.done THEN st ELSE ParsePlacementTurns(fen, st, n)

(* Up to n turns of the loop; the count is halved so that the evaluation   *)
(* nests to its logarithm.                                                 *)
ParsePlacementTurns(fen, st, n) ==
    IF n <= 1 THEN ParsePlacementStep(fen, CharAt(fen, st.ptr), st)
    ELSE ParsePlacementRest(fen, ParsePlacementTurns(fen, st, n \div 2), n - (n \div 2))

(* The first while loop of fenToGameState, which ends at the latest on the *)
(* terminating '\0'.                                                       *)
ParsePlacement(fen, ptr, rank, file, board) ==
    ParsePlacementTurns(fen,
                        [board |-> board, ptr |-> ptr, rank |-> rank, file |-> file,
                         done |-> FALSE],
                        Len(fen) + 1)

RECURSIVE ParseCastling(_, _, _)
(* The castling while loop: the set of letters seen and the final ptr. *)
ParseCastling(fen, ptr, seen) ==
    LET ch == CharAt(fen, ptr)
    IN  IF ch = NUL \/ ch = " " THEN [seen |-> seen, ptr |-> ptr]
        ELSE ParseCastling(fen, ptr + 1, seen \cup {ch})

RECURSIVE ParseNumber(_, _, _)
(* The digit loops: value = value * 10 + digit, for each digit read. *)
ParseNumber(fen, ptr, value) ==
    LET ch == CharAt(fen, ptr)
    IN  IF ch # NUL /\ isdigit(ch)
        THEN ParseNumber(fen, ptr + 1, value * 10 + DigitValue(ch))
        ELSE [value |-> value, ptr |-> ptr]

(* The en-passant field: <<row, col, ptr>>. *)
ParseEnPassant(fen, ptr) ==
    LET ch == CharAt(fen, ptr)
        ch2 == CharAt(fen, ptr + 1)
    IN  IF ch = "-" THEN <<-1, -1, ptr + 1>>
        ELSE IF \E d \in 1 .. 8 : FileChars[d] = ch
        THEN IF isdigit(ch2) /\ DigitValue(ch2) >= 1 /\ DigitValue(ch2) <= 8
             THEN <<8 - DigitValue(ch2), FileValue(ch), ptr + 2>>
             ELSE <<-1, FileValue(ch), ptr + 1>>
        ELSE <<-1, -1, ptr>>

FULLMOVE_PARSE_START == 1

(* The GameState fenToGameState has filled in once the fields are read. *)
FenFields(board, isWhiteTurn, seen, ep, halfmoveClock, fullmoveNumber) ==
    [ board |-> board,
      isWhiteTurn |-> isWhiteTurn,
      whiteCastleKingside |-> "K" \in seen,
      whiteCastleQueenside |-> "Q" \in seen,
      blackCastleKingside |-> "k" \in seen,
      blackCastleQueenside |-> "q" \in seen,
      enPassantTargetRow |-> ep[1],
      enPassantTargetCol |-> ep[2],
      halfmoveClock |-> halfmoveClock,
      fullmoveNumber |-> fullmoveNumber,
      canWhiteCastleKingside |-> "K" \in seen,
      canWhiteCastleQueenside |-> "Q" \in seen,
      canBlackCastleKingside |-> "k" \in seen,
      canBlackCastleQueenside |-> "q" \in seen ]

(* fenToGameState from the halfmove clock on. *)
FenAfterHalfmove(fen, board, isWhiteTurn, seen, ep, halfmove) ==
    FenFields(board, isWhiteTurn, seen, ep, halfmove.value,
              ParseNumber(fen, SkipSpace(fen, halfmove.ptr), FULLMOVE_PARSE_START).value)

(* fenToGameState from the en-passant field on. *)
FenAfterEnPassant(fen, board, isWhiteTurn, seen, ep) ==
    FenAfterHalfmove(fen, board, isWhiteTurn, seen, ep,
                     ParseNumber(fen, SkipSpace(fen, ep[3]), 0))

(* fenToGameState from the castling field on. *)
FenAfterCastling(fen, board, isWhiteTurn, castling) ==
    FenAfterEnPassant(fen, board, isWhiteTurn, castling.seen,
                      ParseEnPassant(fen, SkipSpace(fen, castling.ptr)))

(* fenToGameState from the side to move on, which is read at p1. *)
FenAfterPlacement(fen, board, p1) ==
    FenAfterCastling(fen, board, CharAt(fen, p1) = "w",
                     ParseCastling(fen, SkipSpace(fen, p1 + 1), {}))

(* fenToGameState once the first loop has left placement. *)
FenFromPlacement(fen, placement) ==
    FenAfterPlacement(fen, placement.board, SkipSpace(fen, placement.ptr))

fenToGameState(fen) == FenFromPlacement(fen, ParsePlacement(fen, 1, 0, 0, EmptyBoard))

(***************************************************************************)
(* The players' inputs.  A move is written as in getOpeningBookMove:       *)
(* fromRow*1000 + fromCol*100 + toRow*10 + toCol.  The games below are the *)
(* inputs the human players type; after a game's last move the players     *)
(* type FreePlies further arbitrary (from, to) pairs.                      *)
(***************************************************************************)
FreePlies == 1

DecodeMove(m) == <<m \div 1000, (m % 1000) \div 100, (m % 100) \div 10, m % 10>>

Lines ==
    << (* no scripted move: the free inputs start from the initial position *)
       << >>,
       (* 1.f3 e5 2.g4 Qh4#  (fool's mate) *)
       <<6555, 1434, 6646, 347>>,
       (* 1.e4 a6 2.e5 d5 3.exd6 e.p. *)
       <<6444, 1020, 4434, 1333, 3423>>,
       (* 1.e4 e5 2.Nf3 Nc6 3.Bc4 Bc5 4.O-O Nf6 5.d3 O-O *)
       <<6444, 1434, 7655, 122, 7542, 532, 7476, 625, 6353, 406>>,
       (* 1.d4 d5 2.Nc3 Nc6 3.Bf4 Bf5 4.Qd2 Qd7 5.O-O-O O-O-O *)
       <<6343, 1333, 7152, 122, 7245, 235, 7363, 313, 7472, 402>>,
       (* 1.e4 a5 2.e5 Ra6 3.Ke2 Rh6 4.Kd3 Rh5 5.Kc4 g6 6.Kc5 d5 7.exd6 e.p. Rxc5 *)
       <<6444, 1030, 4434, 20, 7464, 2027, 6453, 2737, 5342, 1626, 4232, 1333, 3423, 3732>>,
       (* 1.e4 a5 2.e5 Ra6 3.Ke2 Rh6 4.Kd3 Rh5 5.Kc4 d5+ *)
       <<6444, 1030, 4434, 20, 7464, 2027, 6453, 2737, 5342, 1333>>,
       (* 1.e3 a5 2.Qh5 Ra6 3.Qxa5 h5 4.h4 Rah6 5.Qxc7 f6 6.Qxd7+ Kf7 7.Qxb7 Qd3  *)
       (* 8.Qxb8 Qh7 9.Qxc8 Kg6 10.Qe6  (stalemate)                               *)
       <<6454, 1030, 7337, 20, 3730, 1737, 6747, 2027, 3012, 1525, 1213, 415,
         1311, 353, 1101, 5317, 102, 1526, 224>>,
       (* 1.b3 g6 2.Bb2 a6 3.Bxh8: a rook taken on its corner *)
       <<6151, 1626, 7261, 1020, 6107>>
    >>

IsPrefix(p, q) == Len(p) <= Len(q) /\ \A k \in 1 .. Len(p) : p[k] = q[k]

(* The (from, to) pairs the player may type after the moves in h. *)
ScriptedInputs(h) ==
    {DecodeMove(Lines[l][Len(h) + 1]) :
        l \in {x \in 1 .. Len(Lines) : Len(h) < Len(Lines[x]) /\ IsPrefix(h, [k \in 1 .. Len(Lines[x]) |-> DecodeMove(Lines[x][k])])}}

InFreePhase(h) ==
    \E l \in 1 .. Len(Lines) :
        /\ Len(Lines[l]) <= Len(h) /\ Len(h) < Len(Lines[l]) + FreePlies
        /\ \A k \in 1 .. Len(Lines[l]) : h[k] = DecodeMove(Lines[l][k])

VARIABLES
    state,          \* the GameState of main
    hist,           \* the moves applied to state so far
    prev,           \* state before the last applied move
    over,           \* why main's loop ended, "no" while it runs
    playerIsWhite,  \* multiplayer: the colour of the local player
    isConnected,    \* multiplayerSession.isConnected
    socket,         \* multiplayer: the messages sent by the peer, not yet received
    closed,         \* multiplayer: the peer has closed the connection
    pc,             \* multiplayer: where main is in its loop
    peerState,      \* multiplayer: the GameState of the peer's program
    peerSent,       \* multiplayer: how many messages the peer's program has sent
    peerForged,     \* multiplayer: how many other messages the peer has sent
    rejected,       \* multiplayer: the last received move isValidMove rejected
    aiDepth,        \* the search depth chosen at start-up
    stack,          \* the active getAIMove / minimax / quiescence calls, innermost first
    ret,            \* the call that has just returned, with its value
    aiMove,         \* the move getAIMove stored for its caller, <<>> before it returns
    aiEntry,        \* state as it was when getAIMove was called
    aiBook,         \* what became of the opening-book move
    evalCache,      \* the evaluation cache
    cacheIndex,     \* the next cache slot to overwrite, before the modulo
    seen,           \* history: the positions state has gone through
    stored,         \* history: the positions cacheEvaluation was called with, in order
    query           \* history: the last query called on state, with what it returned

gameVars == <<state, hist, prev, over>>
netVars == <<playerIsWhite, isConnected, socket, closed, pc, peerState, peerSent,
             peerForged, rejected>>
aiVars == <<aiDepth, stack, ret, aiMove, aiEntry, aiBook, evalCache, cacheIndex>>
queryVars == <<seen, stored, query>>
vars == <<gameVars, netVars, aiVars, queryVars>>

NoReturn == [fn |-> "none", path |-> "", value |-> 0,
             entry |-> initializeGameState, exit |-> initializeGameState]

(* No search is running: main is in a mode without the AI. *)
NoSearch ==
    /\ aiDepth = 3
    /\ stack = <<>>
    /\ ret = NoReturn
    /\ aiMove = <<>>
    /\ aiEntry = initializeGameState
    /\ aiBook = "none"
    /\ evalCache = EmptyCache
    /\ cacheIndex = 0

(* The multiplayer session of a local game: never connected. *)
NoSession ==
    /\ playerIsWhite = TRUE
    /\ isConnected = FALSE
    /\ socket = <<>>
    /\ closed = FALSE
    /\ pc = "main"
    /\ peerState = initializeGameState
    /\ peerSent = 0
    /\ peerForged = 0
    /\ rejected = <<>>

NoCall == [fn |-> "none", args |-> <<>>, value |-> FALSE,
           entry |-> initializeGameState, exit |-> initializeGameState]

(* No position history is kept and no query has been called. *)
NoQuery ==
    /\ seen = <<>>
    /\ stored = <<>>
    /\ query = NoCall

Init ==
    /\ state = initializeGameState
    /\ hist = <<>>
    /\ prev = initializeGameState
    /\ over = "no"
    /\ NoSession
    /\ NoSearch
    /\ NoQuery

(* main's test at the top of each loop iteration *)
GameEnd ==
    /\ over = "no"
    /\ over' = IF isCheckmate(state) THEN "checkmate"
               ELSE IF isStalemate(state) THEN "stalemate"
               ELSE IF isDraw(state) THEN "draw"
               ELSE "no"
    /\ over' # "no"
    /\ UNCHANGED <<state, hist, prev, netVars, aiVars, queryVars>>

(* handleCursorSelection with a piece selected at (fromRow, fromCol) and   *)
(* the cursor on (toRow, toCol), and the caller's turn flip.               *)
handleCursorSelection(fromRow, fromCol, toRow, toCol, promotion) ==
    /\ isValidMove(state, fromRow, fromCol, toRow, toCol)
    /\ state' = FlipTurn(makeMove(state, fromRow, fromCol, toRow, toCol, promotion))
    /\ prev' = state
    /\ hist' = Append(hist, <<fromRow, fromCol, toRow, toCol>>)
    /\ UNCHANGED <<over, netVars, aiVars, queryVars>>

Inputs(h) ==
    IF InFreePhase(h)
    THEN {MoveOf(i, j) : i \in OwnSquares(state), j \in Squares}
    ELSE ScriptedInputs(h)

(* One iteration of main's loop in which the game goes on and the human    *)
(* player completes a move.                                                *)
HumanTurn ==
    /\ over = "no"
    /\ ~isCheckmate(state) /\ ~isStalemate(state) /\ ~isDraw(state)
    /\ \E m \in Inputs(hist) :
         \E promotion \in (IF IsPromotion(state, m[1], m[2], m[3], m[4])
                           THEN PromotionChoices ELSE {"Q"}) :
            handleCursorSelection(m[1], m[2], m[3], m[4], promotion)

Next == GameEnd \/ HumanTurn

Spec == Init /\ [][Next]_vars

(***************************************************************************)
(* Multiplayer.  The local program plays one colour; the peer's messages   *)
(* arrive in socket.  A NetworkMessage is [type, data], data a C string.   *)
(***************************************************************************)
MSG_MOVE == "MSG_MOVE"
MSG_GAME_STATE == "MSG_GAME_STATE"

(* printf's %d *)
FormatInt(n) == IF n < 0 THEN <<"-">> \o IntToStr(-n) ELSE IntToStr(n)

(* sendMove: snprintf(msg.data, ..., "%d,%d,%d,%d", fromRow, fromCol, toRow, toCol) *)
MoveMessage(fromRow, fromCol, toRow, toCol) ==
    [type |-> MSG_MOVE,
     data |-> FormatInt(fromRow) \o <<",">> \o FormatInt(fromCol) \o <<",">>
              \o FormatInt(toRow) \o <<",">> \o FormatInt(toCol)]

(* sendGameState *)
GameStateMessage(s) == [type |-> MSG_GAME_STATE, data |-> gameStateToFEN(s)]

RECURSIVE ScanDigits(_, _, _)
ScanDigits(data, ptr, value) ==
    IF isdigit(CharAt(data, ptr))
    THEN ScanDigits(data, ptr + 1, value * 10 + DigitValue(CharAt(data, ptr)))
    ELSE [value |-> value, ptr |-> ptr]

(* The digits r of a %d conversion with the sign before them. *)
ScanSigned(sign, r) ==
    [ok |-> TRUE, value |-> IF sign = "-" THEN -r.value ELSE r.value, ptr |-> r.ptr]

(* One %d conversion of sscanf at ptr, its digits expected at p0. *)
ScanIntFrom(data, ptr, p0) ==
    IF isdigit(CharAt(data, p0))
    THEN ScanSigned(CharAt(data, ptr), ScanDigits(data, p0, 0))
    ELSE [ok |-> FALSE, value |-> 0, ptr |-> ptr]

ScanInt(data, ptr) ==
    ScanIntFrom(data, ptr,
                IF CharAt(data, ptr) = "-" \/ CharAt(data, ptr) = "+" THEN ptr + 1 ELSE ptr)

RECURSIVE ScanFields(_, _, _)
(* sscanf after the conversion r: a comma must follow all but the fourth. *)
ScanFieldsAfter(data, r, got) ==
    IF ~r.ok THEN got
    ELSE IF Len(got) = 3 THEN Append(got, r.value)
    ELSE IF CharAt(data, r.ptr) # "," THEN Append(got, r.value)
    ELSE ScanFields(data, r.ptr + 1, Append(got, r.value))

(* sscanf(data, "%d,%d,%d,%d", ...): the values converted so far are in    *)
(* got; the result is every value converted before the first mismatch.    *)
ScanFields(data, ptr, got) == ScanFieldsAfter(data, ScanInt(data, ptr), got)

(* if (sscanf(...) == 4) return true; *)
FourFields(got) == IF Len(got) = 4 THEN got ELSE <<>>

(* receiveMove on a message taken from the socket: the move, or <<>> when  *)
(* it returns false.                                                       *)
receiveMove(msg) ==
    IF msg.type = MSG_MOVE THEN FourFields(ScanFields(msg.data, 1, <<>>)) ELSE <<>>

MaxNetPlies == 4
MaxPeerMessages == 4
MaxForged == 1

(* The moves the two players choose among, and the data of the messages a  *)
(* peer that does not follow the protocol sends.                           *)
NetMoves == {DecodeMove(6555), DecodeMove(1434), DecodeMove(6646), DecodeMove(347)}
ForgedMessages ==
    { MoveMessage(1, 4, 4, 4), MoveMessage(6, 3, 4, 3), MoveMessage(-1, 0, 0, 0),
      MoveMessage(1, 3, 3, 3), [type |-> MSG_MOVE, data |-> <<"1", ",", "4">>],
      (* "4k3/8/8/8/8/8/8/4K3 w - - 0 9" *)
      [type |-> MSG_GAME_STATE,
       data |-> <<"4", "k", "3", "/", "8", "/", "8", "/", "8", "/", "8", "/", "8", "/",
                  "8", "/", "4", "K", "3", " ", "w", " ", "-", " ", "-", " ", "0", " ",
                  "9">>] }

InitNet ==
    /\ state = initializeGameState
    /\ hist = <<>>
    /\ prev = initializeGameState
    /\ over = "no"
    /\ playerIsWhite \in BOOLEAN
    /\ isConnected = TRUE
    /\ socket = <<>>
    /\ closed = FALSE
    /\ pc = "main"
    /\ peerState = initializeGameState
    /\ peerSent = 0
    /\ peerForged = 0
    /\ rejected = <<>>
    /\ NoSearch
    /\ NoQuery

(* main: the game-over tests at the top of the loop. *)
NetGameEnd ==
    /\ pc = "main" /\ over = "no"
    /\ isCheckmate(state) \/ isStalemate(state) \/ isDraw(state)
    /\ over' = IF isCheckmate(state) THEN "checkmate"
               ELSE IF isStalemate(state) THEN "stalemate" ELSE "draw"
    /\ pc' = "done"
    /\ UNCHANGED <<state, hist, prev, playerIsWhite, isConnected, socket, closed,
                   peerState, peerSent, peerForged, rejected>>
    /\ UNCHANGED <<aiVars, queryVars>>

NetGoesOn == pc = "main" /\ over = "no"
             /\ ~isCheckmate(state) /\ ~isStalemate(state) /\ ~isDraw(state)

(* main: the local player's turn; a completed move is sent to the peer     *)
(* with sendMove and sendGameState, and the peer's program takes it over.  *)
NetLocalTurn ==
    /\ NetGoesOn
    /\ state.isWhiteTurn = playerIsWhite
    /\ Len(hist) < MaxNetPlies
    /\ peerSent % 2 = 0
    /\ \E m \in NetMoves :
         /\ isValidMove(state, m[1], m[2], m[3], m[4])
         /\ state' = FlipTurn(makeMove(state, m[1], m[2], m[3], m[4], "Q"))
         /\ hist' = Append(hist, m)
    /\ prev' = state
    /\ peerState' = IF isConnected THEN state' ELSE peerState
    /\ UNCHANGED <<over, playerIsWhite, isConnected, socket, closed, pc, peerSent, peerForged,
                   rejected>>
    /\ UNCHANGED <<aiVars, queryVars>>

(* main: the opponent's turn; the waiting loop starts. *)
EnterWaitLoop ==
    /\ NetGoesOn
    /\ state.isWhiteTurn # playerIsWhite
    /\ pc' = IF isConnected THEN "receiveMove" ELSE "done"
    /\ over' = IF isConnected THEN over ELSE "disconnected"
    /\ UNCHANGED <<state, hist, prev, playerIsWhite, isConnected, socket, closed,
                   peerState, peerSent, peerForged, rejected>>
    /\ UNCHANGED <<aiVars, queryVars>>

(* The waiting loop after receiveMove has taken a message off the socket   *)
(* and returned m (<<>> for false): the move is applied when Accepted      *)
(* holds of it.                                                            *)
MoveTaken(m, Accepted(_)) ==
    IF m # <<>> /\ Accepted(m)
    THEN /\ \E promotion \in PromotionsFor(state, m) :
               state' = FlipTurn(makeMove(state, m[1], m[2], m[3], m[4], promotion))
         /\ prev' = state
         /\ hist' = Append(hist, m)
         /\ pc' = "main"
         /\ UNCHANGED rejected
    ELSE /\ rejected' = IF m # <<>> THEN m ELSE rejected
         /\ pc' = "receiveGameState"
         /\ UNCHANGED <<state, hist, prev>>

(* A variant of the first poll that applies a received move without       *)
(* asking isValidMove, as long as it names a piece on the board.           *)
PollMoveWithoutValidation ==
    /\ pc = "receiveMove"
    /\ IF socket = <<>>
       THEN /\ isConnected' = ~closed
            /\ pc' = "receiveGameState"
            /\ UNCHANGED <<state, hist, prev, socket, rejected>>
       ELSE /\ socket' = Tail(socket)
            /\ UNCHANGED isConnected
            /\ MoveTaken(receiveMove(Head(socket)),
                         LAMBDA m : /\ \A k \in 1 .. 4 : m[k] \in Rows
                                    /\ At(state, m[1], m[2]) # EMPTY
                                    /\ <<m[1], m[2]>> # <<m[3], m[4]>>)
    /\ UNCHANGED <<over, playerIsWhite, closed, peerState, peerSent, peerForged>>
    /\ UNCHANGED <<aiVars, queryVars>>

(* The waiting loop's first poll: receiveMove, then isValidMove, makeMove  *)
(* and the turn flip.                                                      *)
PollMove ==
    /\ pc = "receiveMove"
    /\ IF socket = <<>>
       THEN /\ isConnected' = ~closed
            /\ pc' = "receiveGameState"
            /\ UNCHANGED <<state, hist, prev, socket, rejected>>
       ELSE /\ socket' = Tail(socket)
            /\ UNCHANGED isConnected
            /\ MoveTaken(receiveMove(Head(socket)),
                         LAMBDA m : isValidMove(state, m[1], m[2], m[3], m[4]))
    /\ UNCHANGED <<over, playerIsWhite, closed, peerState, peerSent, peerForged>>
    /\ UNCHANGED <<aiVars, queryVars>>

(* The waiting loop after receiveGameState has taken a message off the     *)
(* socket, returned received and left receivedState.                       *)
GameStateTaken(received, receivedState) ==
    IF /\ received
       /\ \/ receivedState.isWhiteTurn # state.isWhiteTurn
          \/ receivedState.fullmoveNumber # state.fullmoveNumber
    THEN state' = receivedState /\ pc' = "main"
    ELSE state' = state /\ pc' = "receiveMove"

(* The waiting loop's second poll: receiveGameState into a copy of state,  *)
(* adopted when its turn or fullmove number differs; then the loop test.   *)
PollGameState ==
    /\ pc = "receiveGameState"
    /\ IF ~isConnected
       THEN /\ pc' = "done" /\ over' = "disconnected"
            /\ UNCHANGED <<state, socket, isConnected>>
       ELSE IF socket = <<>>
       THEN /\ isConnected' = ~closed
            /\ pc' = IF closed THEN "done" ELSE "receiveMove"
            /\ over' = IF closed THEN "disconnected" ELSE over
            /\ UNCHANGED <<state, socket>>
       ELSE /\ socket' = Tail(socket)
            /\ GameStateTaken(Head(socket).type = MSG_GAME_STATE,
                              IF Head(socket).type = MSG_GAME_STATE
                              THEN fenToGameState(Head(socket).data) ELSE state)
            /\ UNCHANGED <<isConnected, over>>
    /\ UNCHANGED <<hist, prev, playerIsWhite, closed, peerState, peerSent, peerForged, rejected>>
    /\ UNCHANGED <<aiVars, queryVars>>

(* The peer's program on its own turn: a move it accepts, sent with        *)
(* sendMove; the message of sendGameState, which the program calls next,   *)
(* arrives with PeerGameState.  peerSent counts both messages.             *)
PeerMove ==
    /\ ~closed
    /\ peerSent % 2 = 0
    /\ peerSent + 2 <= MaxPeerMessages
    /\ peerState.isWhiteTurn # playerIsWhite
    /\ \E m \in NetMoves :
         /\ isValidMove(peerState, m[1], m[2], m[3], m[4])
         /\ peerState' = FlipTurn(makeMove(peerState, m[1], m[2], m[3], m[4], "Q"))
         /\ socket' = Append(socket, MoveMessage(m[1], m[2], m[3], m[4]))
    /\ peerSent' = peerSent + 1
    /\ UNCHANGED <<gameVars, playerIsWhite, isConnected, closed, pc, peerForged, rejected>>
    /\ UNCHANGED <<aiVars, queryVars>>

(* The message of the peer's sendGameState call after its sendMove. *)
PeerGameState ==
    /\ ~closed
    /\ peerSent % 2 = 1
    /\ socket' = Append(socket, GameStateMessage(peerState))
    /\ peerSent' = peerSent + 1
    /\ UNCHANGED <<gameVars, playerIsWhite, isConnected, closed, pc, peerState, peerForged,
                   rejected>>
    /\ UNCHANGED <<aiVars, queryVars>>

(* A peer that does not run this program sends any message it likes. *)
PeerForgery ==
    /\ ~closed
    /\ peerForged < MaxForged
    /\ \E msg \in ForgedMessages : socket' = Append(socket, msg)
    /\ peerForged' = peerForged + 1
    /\ UNCHANGED <<gameVars, playerIsWhite, isConnected, closed, pc, peerState, peerSent,
                   rejected>>
    /\ UNCHANGED <<aiVars, queryVars>>

(* The peer closes the connection. *)
PeerCloses ==
    /\ ~closed
    /\ closed' = TRUE
    /\ UNCHANGED <<gameVars, playerIsWhite, isConnected, socket, pc, peerState, peerSent,
                   peerForged, rejected>>
    /\ UNCHANGED <<aiVars, queryVars>>

NextNet ==
    \/ NetGameEnd
    \/ NetLocalTurn
    \/ EnterWaitLoop
    \/ PollMove
    \/ PollGameState
    \/ PeerMove
    \/ PeerGameState
    \/ PeerForgery
    \/ PeerCloses

SpecNet == InitNet /\ [][NextNet]_vars

(* The multiplayer loop with a peer that runs this program and keeps the   *)
(* connection up.  main goes round its waiting loop for as long as it is   *)
(* in it (the loop sleeps 100 ms and polls again), and a message the peer  *)
(* has sent arrives; neither player has to move.                           *)
NextNetLive ==
    \/ NetGameEnd
    \/ NetLocalTurn
    \/ EnterWaitLoop
    \/ PollMove
    \/ PollGameState
    \/ PeerMove
    \/ PeerGameState

(* main going on while the opponent is to move: the game-over tests and   *)
(* the entry to the waiting loop, or one of the loop's two polls.  None of *)
(* these waits for the player (select has a timeout and recv is called     *)
(* with MSG_DONTWAIT), one of them can always be taken, and each moves     *)
(* main on.                                                                *)
MainGoesOn ==
    /\ \/ pc \in {"receiveMove", "receiveGameState"}
       \/ pc = "main" /\ over = "no" /\ state.isWhiteTurn # playerIsWhite
    /\ pc' \in {"main", "receiveMove", "receiveGameState", "done"}
    /\ pc' # pc

SpecNetLive ==
    /\ InitNet
    /\ [][NextNetLive]_vars
    /\ WF_pc(MainGoesOn)
    /\ WF_vars(PeerGameState)

(***************************************************************************)
(* The search: getAIMove, minimax and quiescence as a machine over the     *)
(* stack of their active calls.  A frame holds a call's parameters and     *)
(* locals; entry is state as the call found it.                            *)
(***************************************************************************)
SCORE_LIMIT == 100000
BOOK_LAST_FULLMOVE == 4

Max(a, b) == IF a > b THEN a ELSE b
Min(a, b) == IF a < b THEN a ELSE b

Frame(fn, depth, alpha, beta, isMax, moves, bestScore, entry, viaMinimax) ==
    [fn |-> fn, depth |-> depth, alpha |-> alpha, beta |-> beta, isMax |-> isMax,
     moves |-> moves, i |-> 0, pos |-> -1, cur |-> NO_MOVE, tempPiece |-> EMPTY,
     bestScore |-> bestScore, best |-> NO_MOVE, entry |-> entry,
     viaMinimax |-> viaMinimax]

Returned(fn, path, value, entry, exit) ==
    [fn |-> fn, path |-> path, value |-> value, entry |-> entry, exit |-> exit]

(* quiescence after evaluateBoard has returned e, up to its loop over the *)
(* captures: the two early returns and the narrowed window.                *)
StandPat(e, s, alpha, beta, isMaximizingPlayer, viaMinimax) ==
    IF isMaximizingPlayer /\ e.score >= beta
    THEN [kind |-> "return", cache |-> e.cache, index |-> e.index,
          ret |-> Returned(IF viaMinimax THEN "minimax" ELSE "quiescence",
                           "standPatBeta", beta, s, s)]
    ELSE IF ~isMaximizingPlayer /\ e.score <= alpha
    THEN [kind |-> "return", cache |-> e.cache, index |-> e.index,
          ret |-> Returned(IF viaMinimax THEN "minimax" ELSE "quiescence",
                           "standPatAlpha", alpha, s, s)]
    ELSE [kind |-> "frame", cache |-> e.cache, index |-> e.index,
          frame |-> Frame("quiescence", 0,
                          IF isMaximizingPlayer THEN Max(alpha, e.score) ELSE alpha,
                          IF isMaximizingPlayer THEN beta ELSE Min(beta, e.score),
                          isMaximizingPlayer, <<>>, 0, s, viaMinimax)]

(* minimax after generateAllMoves and the sort have produced moves: the    *)
(* no-move return and the initial best score.                              *)
MovesReady(moves, s, depth, alpha, beta, isMaximizingPlayer, cache, index) ==
    IF moves = <<>>
    THEN [kind |-> "return", cache |-> cache, index |-> index,
          ret |-> Returned("minimax", "noMoves",
                           IF isInCheck(s, isMaximizingPlayer) THEN -SCORE_LIMIT ELSE 0,
                           s, s)]
    ELSE [kind |-> "frame", cache |-> cache, index |-> index,
          frame |-> Frame("minimax", depth, alpha, beta, isMaximizingPlayer, moves,
                          IF isMaximizingPlayer THEN -SCORE_LIMIT ELSE SCORE_LIMIT,
                          s, FALSE)]

(* A call of quiescence (fn = "quiescence") or of minimax up to the loop   *)
(* of the function that runs: minimax at depth 0 hands over to quiescence. *)
EnterCall(fn, s, depth, alpha, beta, isMaximizingPlayer, cache, index) ==
    IF fn = "quiescence" \/ depth = 0
    THEN StandPat(evaluateBoard(cache, index, s), s, alpha, beta, isMaximizingPlayer,
                  fn # "quiescence")
    ELSE MovesReady(SortedMoves(s), s, depth, alpha, beta, isMaximizingPlayer, cache, index)

(* The least element of a finite set of naturals, -1 when it is empty. *)
MinOrNone(S) == IF S = {} THEN -1 ELSE CHOOSE m \in S : \A n \in S : m <= n

(* A variant of quiescence's loops that tries every move of the flagged    *)
(* colour on to a square not held by that colour, captures or not.         *)
NextCaptureOrQuietMove(s, isMaximizingPlayer, from) ==
    LET own == {i \in Squares : IF isMaximizingPlayer THEN isupper(s.board[i])
                                                      ELSE islower(s.board[i])}
    IN  MinOrNone({m \in {64 * (i - 1) + (j - 1) : i \in own, j \in Squares \ own} :
                    /\ m >= from
                    /\ isValidMove(s, RowOf((m \div 64) + 1), ColOf((m \div 64) + 1),
                                      RowOf((m % 64) + 1), ColOf((m % 64) + 1))})

(* The next capture quiescence's four loops reach from move number from    *)
(* on, as a move number; -1 when the loops end.                            *)
NextCapture(s, isMaximizingPlayer, from) ==
    LET own == {i \in Squares : IF isMaximizingPlayer THEN isupper(s.board[i])
                                                      ELSE islower(s.board[i])}
        enemy == {j \in Squares : IF isMaximizingPlayer THEN islower(s.board[j])
                                                        ELSE isupper(s.board[j])}
    IN  MinOrNone({m \in {64 * (i - 1) + (j - 1) : i \in own, j \in enemy} :
                    /\ m >= from
                    /\ isValidMove(s, RowOf((m \div 64) + 1), ColOf((m \div 64) + 1),
                                      RowOf((m % 64) + 1), ColOf((m % 64) + 1))})

(* The move the call in frame f makes next, NO_MOVE when its loop is over. *)
MoveOrNone(m) == IF m = -1 THEN NO_MOVE ELSE MoveOfNum(m)

NextMoveOf(f, s) ==
    IF f.fn = "quiescence"
    THEN MoveOrNone(NextCapture(s, f.isMax, f.pos + 1))
    ELSE IF f.i < Len(f.moves) THEN f.moves[f.i + 1] ELSE NO_MOVE

SearchIdle == stack = <<>> /\ aiMove = <<>> /\ ret.fn = "none"

(* getAIMove once the book move is decoded and validated and the sorted   *)
(* move list is there.                                                     *)
getAIMoveWith(bookMove, bookValid, moves) ==
    /\ aiEntry' = state
    /\ aiBook' = IF bookMove = -1 THEN "none"
                 ELSE IF bookValid THEN "accepted" ELSE "rejected"
    /\ IF bookValid
       THEN /\ aiMove' = DecodeMove(bookMove)
            /\ ret' = Returned("getAIMove", "book", 0, state, state)
            /\ stack' = stack
       ELSE IF moves = <<>>
       THEN /\ aiMove' = getEmergencyMove(state)
            /\ ret' = Returned("getAIMove", "noMoves", 0, state, state)
            /\ stack' = stack
       ELSE /\ aiMove' = aiMove
            /\ ret' = ret
            /\ stack' = << Frame("getAIMove", aiDepth, -SCORE_LIMIT, SCORE_LIMIT,
                                 state.isWhiteTurn, moves,
                                 IF state.isWhiteTurn THEN -SCORE_LIMIT ELSE SCORE_LIMIT,
                                 state, FALSE) >>

(* The opening-book move getAIMove looks at, -1 for none. *)
BookMoveFor(s) ==
    IF s.fullmoveNumber <= BOOK_LAST_FULLMOVE THEN getOpeningBookMove(s) ELSE -1

BookMoveValid(s, bookMove) ==
    /\ bookMove # -1
    /\ isValidMove(s, DecodeMove(bookMove)[1], DecodeMove(bookMove)[2],
                      DecodeMove(bookMove)[3], DecodeMove(bookMove)[4])

(* getAIMove from its entry to the first move of its search loop: the      *)
(* opening book, generateAllMoves, the no-move exit and the sort.          *)
getAIMoveCall ==
    /\ SearchIdle
    /\ getAIMoveWith(BookMoveFor(state), BookMoveValid(state, BookMoveFor(state)),
                     SortedMoves(state))
    /\ UNCHANGED <<gameVars, netVars, aiDepth, evalCache, cacheIndex, queryVars>>

(* The call in frame f has made move m (s1 is the board after it) and the  *)
(* function it called has run up to its loop or returned: callee.          *)
Called(f, m, tempPiece, s1, callee) ==
    /\ state' = s1
    /\ evalCache' = callee.cache
    /\ cacheIndex' = callee.index
    /\ IF callee.kind = "frame"
       THEN /\ stack' = <<callee.frame,
                          [f EXCEPT !.i = IF f.fn = "quiescence" THEN @ ELSE @ + 1,
                                    !.pos = 64 * (Idx(m[1], m[2]) - 1) + (Idx(m[3], m[4]) - 1),
                                    !.cur = m,
                                    !.tempPiece = tempPiece]>> \o Tail(stack)
            /\ ret' = ret
       ELSE /\ stack' = <<[f EXCEPT !.i = IF f.fn = "quiescence" THEN @ ELSE @ + 1,
                                    !.pos = 64 * (Idx(m[1], m[2]) - 1) + (Idx(m[3], m[4]) - 1),
                                    !.cur = m,
                                    !.tempPiece = tempPiece]>> \o Tail(stack)
            /\ ret' = callee.ret

(* The call in frame f makes move m on the board and calls quiescence or   *)
(* minimax on the board s1 it gets.                                        *)
MakeAndCall(f, m, s1) ==
    Called(f, m, At(state, m[3], m[4]), s1,
           EnterCall(IF f.fn = "quiescence" THEN "quiescence" ELSE "minimax",
                     s1,
                     IF f.fn = "getAIMove" THEN aiDepth - 1 ELSE f.depth - 1,
                     IF f.fn = "getAIMove" THEN -SCORE_LIMIT ELSE f.alpha,
                     IF f.fn = "getAIMove" THEN SCORE_LIMIT ELSE f.beta,
                     IF f.fn = "getAIMove" THEN ~state.isWhiteTurn ELSE ~f.isMax,
                     evalCache, cacheIndex))

CallWith(f, m) ==
    /\ m # NO_MOVE
    /\ MakeAndCall(f, m, ApplyRaw(state, m[1], m[2], m[3], m[4]))

(* The innermost call makes its next move on the board and calls minimax   *)
(* or quiescence, which runs up to its own loop or returns at once.        *)
SearchCall ==
    /\ stack # <<>> /\ ret.fn = "none"
    /\ CallWith(Head(stack), NextMoveOf(Head(stack), state))
    /\ UNCHANGED <<hist, prev, over, netVars, aiDepth, aiMove, aiEntry, aiBook, queryVars>>

(* The caller takes the returned score: it undoes its move, updates its    *)
(* bounds and best score, and leaves its loop early on a cut-off.          *)
SearchResume ==
    /\ stack # <<>> /\ ret.fn # "none"
    /\ LET f == Head(stack)
           score == ret.value
           s0 == UndoRaw(state, f.cur[1], f.cur[2], f.cur[3], f.cur[4], f.tempPiece)
           fnName == IF f.viaMinimax THEN "minimax" ELSE f.fn
       IN  /\ state' = s0
           /\ CASE f.fn = "quiescence" ->
                     IF f.isMax /\ score >= f.beta
                     THEN /\ stack' = Tail(stack)
                          /\ ret' = Returned(fnName, "loopBeta", f.beta, f.entry, s0)
                     ELSE IF ~f.isMax /\ score <= f.alpha
                     THEN /\ stack' = Tail(stack)
                          /\ ret' = Returned(fnName, "loopAlpha", f.alpha, f.entry, s0)
                     ELSE /\ stack' = << [f EXCEPT
                                            !.alpha = IF f.isMax THEN Max(@, score) ELSE @,
                                            !.beta = IF f.isMax THEN @ ELSE Min(@, score)] >>
                                      \o Tail(stack)
                          /\ ret' = NoReturn
                [] f.fn = "minimax" ->
                     LET bestScore == IF f.isMax THEN Max(score, f.bestScore)
                                                 ELSE Min(score, f.bestScore)
                         alpha == IF f.isMax THEN Max(f.alpha, bestScore) ELSE f.alpha
                         beta == IF f.isMax THEN f.beta ELSE Min(f.beta, bestScore)
                     IN  IF beta <= alpha
                         THEN /\ stack' = Tail(stack)
                              /\ ret' = Returned("minimax", "break", bestScore, f.entry, s0)
                         ELSE /\ stack' = << [f EXCEPT !.bestScore = bestScore,
                                                       !.alpha = alpha,
                                                       !.beta = beta] >> \o Tail(stack)
                              /\ ret' = NoReturn
                [] OTHER ->
                     LET better == IF f.isMax THEN score > f.bestScore
                                              ELSE score < f.bestScore
                     IN  /\ stack' = << [f EXCEPT
                                           !.bestScore = IF better THEN score ELSE @,
                                           !.best = IF better THEN f.cur ELSE @] >>
                                     \o Tail(stack)
                         /\ ret' = NoReturn
    /\ UNCHANGED <<hist, prev, over, netVars, aiDepth, aiMove, aiEntry, aiBook,
                   evalCache, cacheIndex, queryVars>>

(* The loop of the innermost minimax or quiescence call is over: the call  *)
(* returns.                                                                *)
SearchLoopExit ==
    /\ stack # <<>> /\ ret.fn = "none"
    /\ LET f == Head(stack)
       IN  /\ f.fn # "getAIMove"
           /\ NextMoveOf(f, state) = NO_MOVE
           /\ stack' = Tail(stack)
           /\ ret' = IF f.fn = "quiescence"
                     THEN Returned(IF f.viaMinimax THEN "minimax" ELSE "quiescence", "loopEnd",
                                   IF f.isMax THEN f.alpha ELSE f.beta, f.entry, state)
                     ELSE Returned("minimax", "loopEnd", f.bestScore, f.entry, state)
    /\ UNCHANGED <<gameVars, netVars, aiDepth, aiMove, aiEntry, aiBook, evalCache, cacheIndex,
                   queryVars>>

(* getAIMove after its search loop: the best move, or the emergency move   *)
(* when the loop kept none.                                                *)
getAIMoveReturn ==
    /\ stack # <<>> /\ ret.fn = "none"
    /\ LET f == Head(stack)
       IN  /\ f.fn = "getAIMove"
           /\ NextMoveOf(f, state) = NO_MOVE
           /\ stack' = Tail(stack)
           /\ aiMove' = IF f.best[1] = -1 THEN getEmergencyMove(state) ELSE f.best
           /\ ret' = Returned("getAIMove", IF f.best[1] = -1 THEN "emergency" ELSE "search",
                              f.bestScore, f.entry, state)
    /\ UNCHANGED <<gameVars, netVars, aiDepth, aiEntry, aiBook, evalCache, cacheIndex, queryVars>>

MaxAIDepth == 3

RECURSIVE PlayLine(_, _)
(* The position after the moves of line, played from s for as long as      *)
(* isValidMove accepts them.                                               *)
PlayLine(s, line) ==
    IF line = <<>> THEN s
    ELSE LET m == DecodeMove(Head(line))
         IN  IF ~isValidMove(s, m[1], m[2], m[3], m[4]) THEN s
             ELSE PlayLine(FlipTurn(makeMove(s, m[1], m[2], m[3], m[4], "Q")), Tail(line))

(* A position with the given pieces, no castling right and no en-passant   *)
(* target.                                                                 *)
PositionOf(pieces, isWhiteTurn, fullmoveNumber) ==
    [ initializeGameState EXCEPT
        !.board = [i \in Squares |->
                     IF \E q \in pieces : Idx(q[1], q[2]) = i
                     THEN (CHOOSE q \in pieces : Idx(q[1], q[2]) = i)[3]
                     ELSE EMPTY],
        !.isWhiteTurn = isWhiteTurn,
        !.fullmoveNumber = fullmoveNumber,
        !.canWhiteCastleKingside = FALSE,
        !.canWhiteCastleQueenside = FALSE,
        !.canBlackCastleKingside = FALSE,
        !.canBlackCastleQueenside = FALSE ]

(* The positions getAIMove is called on. *)
AIPositions ==
    << (* the initial position: the book move e4 *)
       initializeGameState,
       (* 1.e4 d6 2.Qh5 Nf6 3.Bb5+: the book move Nxh5 leaves Black in check *)
       PlayLine(initializeGameState, <<6444, 1323, 7337, 625, 7531>>),
       (* 1.f3 e5 2.g4 Qh4#: White has no move *)
       PlayLine(initializeGameState, <<6555, 1434, 6646, 347>>),
       (* Black king a8, White queen c7 and king c6: Black is stalemated *)
       PositionOf({<<0, 0, "k">>, <<1, 2, "Q">>, <<2, 2, "K">>}, FALSE, 40),
       (* White king g1, rook d1, pawn e4; Black king g8, rook d8, pawn d5 *)
       PositionOf({<<7, 6, "K">>, <<7, 3, "R">>, <<4, 4, "P">>,
                   <<0, 6, "k">>, <<0, 3, "r">>, <<3, 3, "p">>}, TRUE, 30),
       (* the same with Black to move *)
       PositionOf({<<7, 6, "K">>, <<7, 3, "R">>, <<4, 4, "P">>,
                   <<0, 6, "k">>, <<0, 3, "r">>, <<3, 3, "p">>}, FALSE, 30),
       (* White king a1 and pawn h7, Black queen b3 and king e5: after h8   *)
       (* White has no second move                                          *)
       PositionOf({<<7, 0, "K">>, <<1, 7, "P">>, <<5, 1, "q">>, <<3, 4, "k">>}, TRUE, 50)
    >>

InitAI ==
    /\ \E k \in 1 .. Len(AIPositions) : state = AIPositions[k]
    /\ aiDepth \in 1 .. MaxAIDepth
    /\ hist = <<>>
    /\ prev = state
    /\ over = "no"
    /\ NoSession
    /\ stack = <<>>
    /\ ret = NoReturn
    /\ aiMove = <<>>
    /\ aiEntry = state
    /\ aiBook = "none"
    /\ evalCache = EmptyCache
    /\ cacheIndex = 0
    /\ NoQuery

NextAI ==
    \/ getAIMoveCall
    \/ SearchCall
    \/ SearchResume
    \/ SearchLoopExit
    \/ getAIMoveReturn

SpecAI == InitAI /\ [][NextAI]_vars

(***************************************************************************)
(* Games taken up from given positions: main's loop with two human         *)
(* players, entered with state already at a position of a game in          *)
(* progress.  A study is such a position with the moves the players type;  *)
(* after them they type MaxFreeMoves further arbitrary (from, to) pairs.   *)
(***************************************************************************)
MaxFreeMoves == 1

WithClock(s, halfmoveClock) == [s EXCEPT !.halfmoveClock = halfmoveClock]

Kings == {<<7, 4, "K">>, <<0, 4, "k">>}

Studies ==
    << (* rooks shuffling a1-b1 and a8-b8 from halfmove clock 90 *)
       [position |-> WithClock(PositionOf({<<7, 6, "K">>, <<7, 0, "R">>,
                                           <<0, 6, "k">>, <<0, 0, "r">>}, TRUE, 60), 90),
        line |-> <<7071, 1, 7170, 100, 7071, 1, 7170, 100, 7071, 1>>],
       (* White king d5 takes the last pawn on e5 *)
       [position |-> PositionOf({<<3, 3, "K">>, <<0, 7, "k">>, <<3, 4, "p">>}, TRUE, 50),
        line |-> <<>>],
       (* material: the two kings alone, and with minor pieces *)
       [position |-> PositionOf(Kings, TRUE, 50), line |-> <<>>],
       [position |-> PositionOf(Kings \cup {<<7, 2, "B">>}, TRUE, 50), line |-> <<>>],
       [position |-> PositionOf(Kings \cup {<<7, 1, "N">>}, FALSE, 50), line |-> <<>>],
       [position |-> PositionOf(Kings \cup {<<0, 2, "b">>}, TRUE, 50), line |-> <<>>],
       [position |-> PositionOf(Kings \cup {<<0, 1, "n">>}, FALSE, 50), line |-> <<>>],
       (* bishops on squares of the same colour, and of opposite colours *)
       [position |-> PositionOf(Kings \cup {<<7, 2, "B">>, <<0, 5, "b">>}, TRUE, 50),
        line |-> <<>>],
       [position |-> PositionOf(Kings \cup {<<7, 2, "B">>, <<0, 2, "b">>}, TRUE, 50),
        line |-> <<>>],
       [position |-> PositionOf(Kings \cup {<<7, 1, "N">>, <<0, 1, "n">>}, TRUE, 50),
        line |-> <<>>],
       [position |-> PositionOf(Kings \cup {<<7, 2, "B">>, <<0, 1, "n">>}, TRUE, 50),
        line |-> <<>>],
       [position |-> PositionOf(Kings \cup {<<7, 1, "N">>, <<0, 2, "b">>}, FALSE, 50),
        line |-> <<>>],
       [position |-> PositionOf(Kings \cup {<<7, 1, "N">>, <<7, 6, "N">>}, TRUE, 50),
        line |-> <<>>],
       [position |-> PositionOf(Kings \cup {<<7, 2, "B">>, <<7, 5, "B">>}, TRUE, 50),
        line |-> <<>>],
       [position |-> PositionOf(Kings \cup {<<0, 2, "b">>, <<0, 1, "n">>}, FALSE, 50),
        line |-> <<>>],
       [position |-> PositionOf(Kings \cup {<<7, 2, "B">>, <<0, 5, "b">>, <<0, 1, "n">>},
                                TRUE, 50),
        line |-> <<>>],
       (* material: a pawn, a rook or a queen on the board *)
       [position |-> PositionOf(Kings \cup {<<6, 0, "P">>}, TRUE, 50), line |-> <<>>],
       [position |-> PositionOf(Kings \cup {<<1, 7, "p">>, <<7, 2, "B">>}, FALSE, 50),
        line |-> <<>>],
       [position |-> PositionOf(Kings \cup {<<7, 0, "R">>}, TRUE, 50), line |-> <<>>],
       [position |-> PositionOf(Kings \cup {<<0, 7, "r">>, <<7, 1, "N">>}, TRUE, 50),
        line |-> <<>>],
       [position |-> PositionOf(Kings \cup {<<7, 3, "Q">>}, FALSE, 50), line |-> <<>>],
       [position |-> PositionOf(Kings \cup {<<0, 3, "q">>, <<0, 1, "n">>}, TRUE, 50),
        line |-> <<>>],
       (* pins: the white rook e4 between king e1 and the black rook e8 *)
       [position |-> PositionOf({<<7, 4, "K">>, <<4, 4, "R">>, <<0, 4, "r">>, <<0, 7, "k">>},
                                TRUE, 50),
        line |-> <<>>],
       (* the white knight d2 between king e1 and the black bishop a5 *)
       [position |-> PositionOf({<<7, 4, "K">>, <<6, 3, "N">>, <<3, 0, "b">>, <<0, 7, "k">>},
                                TRUE, 50),
        line |-> <<>>],
       (* the white pawn f2 between king e1 and the black bishop g3, with a  *)
       (* black knight on e3 to take                                         *)
       [position |-> PositionOf({<<7, 4, "K">>, <<6, 5, "P">>, <<5, 6, "b">>, <<5, 4, "n">>,
                                 <<0, 7, "k">>}, TRUE, 50),
        line |-> <<>>],
       (* the black bishop d8 between king a8 and the white queen h8 *)
       [position |-> PositionOf({<<0, 0, "k">>, <<0, 3, "b">>, <<0, 7, "Q">>, <<7, 4, "K">>},
                                FALSE, 50),
        line |-> <<>>],
       (* two white pieces between king e1 and the black rook e8 *)
       [position |-> PositionOf({<<7, 4, "K">>, <<5, 4, "R">>, <<6, 4, "N">>, <<0, 4, "r">>,
                                 <<0, 7, "k">>}, TRUE, 50),
        line |-> <<>>],
       (* a black bishop, not a rook, on the file of king e1 and rook e4 *)
       [position |-> PositionOf({<<7, 4, "K">>, <<4, 4, "R">>, <<0, 4, "b">>, <<0, 7, "k">>},
                                TRUE, 50),
        line |-> <<>>],
       (* the white rook e4 between king e1 and the black rook e8 while the  *)
       (* black knight f3 gives check                                        *)
       [position |-> PositionOf({<<7, 4, "K">>, <<4, 4, "R">>, <<0, 4, "r">>, <<5, 5, "n">>,
                                 <<0, 7, "k">>}, TRUE, 50),
        line |-> <<>>],
       (* pawns one step from their last rank: the white pawn a7 with the    *)
       (* black rook b8 to take, the black pawn h2 with the white knight g1  *)
       (* to take                                                            *)
       [position |-> PositionOf(Kings \cup {<<1, 0, "P">>, <<0, 1, "r">>}, TRUE, 50),
        line |-> <<>>],
       [position |-> PositionOf(Kings \cup {<<6, 7, "p">>, <<7, 6, "N">>}, FALSE, 50),
        line |-> <<>>],
       (* games from the initial position *)
       [position |-> initializeGameState, line |-> <<6444, 1434, 7655, 122, 7542, 532>>],
       (* the same after both king's knights went out and back *)
       [position |-> [initializeGameState EXCEPT !.halfmoveClock = 4, !.fullmoveNumber = 3],
        line |-> <<6343, 1333, 7152, 122, 7245, 235, 7363, 313>>]
    >>

(* The study the game in progress was taken up from. *)
StudyOf(start) == CHOOSE k \in 1 .. Len(Studies) : Studies[k].position = start

(* The (from, to) pairs the players may type after the moves in h. *)
StudyInputs(start, h) ==
    IF Len(h) < Len(Studies[StudyOf(start)].line)
    THEN {DecodeMove(Studies[StudyOf(start)].line[Len(h) + 1])}
    ELSE IF Len(h) < Len(Studies[StudyOf(start)].line) + MaxFreeMoves
    THEN {MoveOf(i, j) : i \in OwnSquares(state), j \in Squares}
    ELSE {}

InitStudy ==
    /\ \E k \in 1 .. Len(Studies) : state = Studies[k].position
    /\ hist = <<>>
    /\ prev = state
    /\ over = "no"
    /\ NoSession
    /\ NoSearch
    /\ seen = <<state>>
    /\ stored = <<>>
    /\ query = NoCall

(* One iteration of main's loop in which the game goes on and the player   *)
(* to move completes a move: handleCursorSelection and the turn flip.      *)
StudyTurn ==
    /\ over = "no"
    /\ ~isCheckmate(state) /\ ~isStalemate(state) /\ ~isDraw(state)
    /\ \E m \in StudyInputs(seen[1], hist) :
         \E promotion \in (IF IsPromotion(state, m[1], m[2], m[3], m[4])
                           THEN PromotionChoices ELSE {"Q"}) :
            /\ isValidMove(state, m[1], m[2], m[3], m[4])
            /\ state' = FlipTurn(makeMove(state, m[1], m[2], m[3], m[4], promotion))
            /\ prev' = state
            /\ hist' = Append(hist, m)
            /\ seen' = Append(seen, state')
    /\ UNCHANGED <<over, netVars, aiVars, stored, query>>

NextStudy ==
    \/ GameEnd
    \/ StudyTurn

SpecStudy == InitStudy /\ [][NextStudy]_vars

(***************************************************************************)
(* The evaluation cache on its own: cacheEvaluation called with one        *)
(* position after the other, as evaluateBoard calls it after a miss, and   *)
(* getCachedEvaluation called in between.                                  *)
(***************************************************************************)
MaxStored == 66

(* The k-th position evaluated: the kings at home and a white knight on    *)
(* one of the squares from a7 on, with White to move for odd k and Black   *)
(* for even k.  No two of them have the same board and side to move.       *)
CachePosition(k) ==
    PositionOf(Kings \cup {<<RowOf(9 + ((k - 1) \div 2)), ColOf(9 + ((k - 1) \div 2)), "N">>},
               k % 2 = 1, 50)

InitCache ==
    /\ state = initializeGameState
    /\ hist = <<>>
    /\ prev = initializeGameState
    /\ over = "no"
    /\ NoSession
    /\ NoSearch
    /\ NoQuery

(* cacheEvaluation(position, score of the position) *)
StoreEvaluation ==
    /\ Len(stored) < MaxStored
    /\ evalCache' = cacheEvaluation(evalCache, cacheIndex, CachePosition(Len(stored) + 1),
                                    ComputeEvaluation(CachePosition(Len(stored) + 1)))
    /\ cacheIndex' = cacheIndex + 1
    /\ stored' = Append(stored, CachePosition(Len(stored) + 1))
    /\ query' = NoCall
    /\ UNCHANGED <<gameVars, netVars, aiDepth, stack, ret, aiMove, aiEntry, aiBook, seen>>

(* getCachedEvaluation(the k-th position), stored or not yet stored, once  *)
(* between two calls of cacheEvaluation                                     *)
LookupEvaluation ==
    /\ query.fn = "none"
    /\ \E k \in 1 .. (MaxStored + 1) :
         query' = [fn |-> "getCachedEvaluation", args |-> <<k>>,
                   value |-> getCachedEvaluation(evalCache, CachePosition(k)),
                   entry |-> CachePosition(k), exit |-> CachePosition(k)]
    /\ UNCHANGED <<gameVars, netVars, aiVars, seen, stored>>

NextCache ==
    \/ StoreEvaluation
    \/ LookupEvaluation

SpecCache == InitCache /\ [][NextCache]_vars

(***************************************************************************)
(* The earlier engine variant (src/unnamed/part_000): isValidMove and the  *)
(* functions it calls, where they differ from the later ones.              *)
(* isValidKnightMove, isValidQueenMove's shape, isInCheck's shape and      *)
(* doesMovePutKingInCheck's shape are the same in both.  isValidMove never *)
(* calls the rook's or the bishop's predicate with from = to: the          *)
(* destination would hold the mover's own piece.                           *)
(***************************************************************************)
isValidPawnMove_part_000(s, fromRow, fromCol, toRow, toCol) ==
    LET direction == IF s.isWhiteTurn THEN -1 ELSE 1
        startRow == IF s.isWhiteTurn THEN 6 ELSE 1
    IN  IF fromCol = toCol /\ toRow = fromRow + direction /\ At(s, toRow, toCol) = EMPTY
        THEN TRUE
        ELSE IF fromCol = toCol /\ fromRow = startRow /\ toRow = fromRow + 2 * direction
                /\ At(s, fromRow + direction, fromCol) = EMPTY
                /\ At(s, toRow, toCol) = EMPTY
        THEN TRUE
        ELSE IF abs(fromCol - toCol) = 1 /\ toRow = fromRow + direction
                /\ At(s, toRow, toCol) # EMPTY
                /\ (\/ (s.isWhiteTurn /\ islower(At(s, toRow, toCol)))
                    \/ (~s.isWhiteTurn /\ isupper(At(s, toRow, toCol))))
        THEN TRUE
        ELSE IF toupper(At(s, fromRow, fromCol)) = WHITE_PAWN
                /\ abs(fromCol - toCol) = 1
                /\ At(s, toRow, toCol) = EMPTY
                /\ toRow = s.enPassantTargetRow
                /\ toCol = s.enPassantTargetCol
        THEN TRUE
        ELSE FALSE

isValidRookMove_part_000(s, fromRow, fromCol, toRow, toCol) ==
    IF fromRow # toRow /\ fromCol # toCol THEN FALSE
    ELSE
      LET rowStep == IF toRow > fromRow THEN 1 ELSE IF toRow < fromRow THEN -1 ELSE 0
          colStep == IF toCol > fromCol THEN 1 ELSE IF toCol < fromCol THEN -1 ELSE 0
          n == abs(toRow - fromRow) + abs(toCol - fromCol)
      IN  \A k \in 1 .. (n - 1) :
              At(s, fromRow + k * rowStep, fromCol + k * colStep) = EMPTY

isValidBishopMove_part_000(s, fromRow, fromCol, toRow, toCol) ==
    IF abs(toRow - fromRow) # abs(toCol - fromCol) THEN FALSE
    ELSE
      LET rowStep == IF toRow > fromRow THEN 1 ELSE -1
          colStep == IF toCol > fromCol THEN 1 ELSE -1
          n == abs(toRow - fromRow)
      IN  \A k \in 1 .. (n - 1) :
              At(s, fromRow + k * rowStep, fromCol + k * colStep) = EMPTY

isValidQueenMove_part_000(s, fromRow, fromCol, toRow, toCol) ==
    \/ isValidRookMove_part_000(s, fromRow, fromCol, toRow, toCol)
    \/ isValidBishopMove_part_000(s, fromRow, fromCol, toRow, toCol)

RECURSIVE isValidMove_part_000(_, _, _, _, _)

(* isSquareAttacked asks isValidMove about every piece of the attacking    *)
(* colour, with isWhiteTurn set to that colour for the call.               *)
isSquareAttacked_part_000(s, row, col, byWhite) ==
    \E i \in Rows, j \in Rows :
        /\ (byWhite /\ isupper(At(s, i, j))) \/ (~byWhite /\ islower(At(s, i, j)))
        /\ isValidMove_part_000([s EXCEPT !.isWhiteTurn = byWhite], i, j, row, col)

isInCheck_part_000(s, isWhiteKing) ==
    LET k == FindKing(s, IF isWhiteKing THEN WHITE_KING ELSE BLACK_KING)
    IN  IF k = 0 THEN FALSE
        ELSE isSquareAttacked_part_000(s, RowOf(k), ColOf(k), ~isWhiteKing)

isValidCastling_part_000(s, fromRow, fromCol, toRow, toCol) ==
    LET piece == At(s, fromRow, fromCol)
        isWhite == isupper(piece)
        isKingSide == toCol > fromCol
        rookCol == IF isKingSide THEN 7 ELSE 0
        step == IF isKingSide THEN 1 ELSE -1
    IN  IF toupper(piece) # WHITE_KING \/ fromRow # (IF isWhite THEN 7 ELSE 0) \/ fromCol # 4
        THEN FALSE
        ELSE IF abs(toCol - fromCol) # 2 THEN FALSE
        ELSE IF isInCheck_part_000(s, isWhite) THEN FALSE
        ELSE IF \E k \in 1 .. (abs(rookCol - fromCol) - 1) :
                    At(s, fromRow, fromCol + k * step) # EMPTY
        THEN FALSE
        ELSE IF \E k \in 0 .. abs(toCol - fromCol) :
                    isInCheck_part_000(
                        [s EXCEPT !.board =
                            [[s.board EXCEPT ![Idx(fromRow, fromCol)] = EMPTY]
                                EXCEPT ![Idx(fromRow, fromCol + k * step)] = piece]],
                        isWhite)
        THEN FALSE
        ELSE IF isWhite /\ isKingSide /\ ~s.canWhiteCastleKingside THEN FALSE
        ELSE IF isWhite /\ ~isKingSide /\ ~s.canWhiteCastleQueenside THEN FALSE
        ELSE IF ~isWhite /\ isKingSide /\ ~s.canBlackCastleKingside THEN FALSE
        ELSE IF ~isWhite /\ ~isKingSide /\ ~s.canBlackCastleQueenside THEN FALSE
        ELSE TRUE

isValidKingMove_part_000(s, fromRow, fromCol, toRow, toCol) ==
    IF abs(toRow - fromRow) <= 1 /\ abs(toCol - fromCol) <= 1 THEN TRUE
    ELSE IF abs(fromCol - toCol) = 2 /\ fromRow = toRow
    THEN isValidCastling_part_000(s, fromRow, fromCol, toRow, toCol)
    ELSE FALSE

doesMovePutKingInCheck_part_000(s, fromRow, fromCol, toRow, toCol) ==
    isInCheck_part_000(ApplyRaw(s, fromRow, fromCol, toRow, toCol), s.isWhiteTurn)

(* The switch of the earlier isValidMove: every case, the default          *)
(* included, is a return statement, so the function ends here and the      *)
(* statements after the switch (the call of doesMovePutKingInCheck and     *)
(* return true) are never executed.                                        *)
SwitchOf_part_000(s, fromRow, fromCol, toRow, toCol) ==
    LET pieceType == toupper(At(s, fromRow, fromCol))
    IN  CASE pieceType = WHITE_PAWN ->
               isValidPawnMove_part_000(s, fromRow, fromCol, toRow, toCol)
          [] pieceType = WHITE_ROOK ->
               isValidRookMove_part_000(s, fromRow, fromCol, toRow, toCol)
          [] pieceType = WHITE_KNIGHT -> isValidKnightMove(s, fromRow, fromCol, toRow, toCol)
          [] pieceType = WHITE_BISHOP ->
               isValidBishopMove_part_000(s, fromRow, fromCol, toRow, toCol)
          [] pieceType = WHITE_QUEEN ->
               isValidQueenMove_part_000(s, fromRow, fromCol, toRow, toCol)
          [] pieceType = WHITE_KING ->
               isValidKingMove_part_000(s, fromRow, fromCol, toRow, toCol)
          [] OTHER -> FALSE

isValidMove_part_000(s, fromRow, fromCol, toRow, toCol) ==
    IF \/ fromRow < 0 \/ fromRow >= BOARD_SIZE \/ fromCol < 0 \/ fromCol >= BOARD_SIZE
       \/ toRow < 0 \/ toRow >= BOARD_SIZE \/ toCol < 0 \/ toCol >= BOARD_SIZE
    THEN FALSE
    ELSE IF s.isWhiteTurn /\ ~isupper(At(s, fromRow, fromCol)) THEN FALSE
    ELSE IF ~s.isWhiteTurn /\ isupper(At(s, fromRow, fromCol)) THEN FALSE
    ELSE IF s.isWhiteTurn /\ isupper(At(s, toRow, toCol)) THEN FALSE
    ELSE IF ~s.isWhiteTurn /\ islower(At(s, toRow, toCol)) THEN FALSE
    ELSE SwitchOf_part_000(s, fromRow, fromCol, toRow, toCol)

(***************************************************************************)
(* The queries called on given positions: one call of one of the legality  *)
(* and terminal-state functions, after which the position is what the call *)
(* left in *state.                                                         *)
(***************************************************************************)
QueryPositions ==
    << initializeGameState,
       (* 1.f3 e5 2.g4 Qh4# *)
       PlayLine(initializeGameState, <<6555, 1434, 6646, 347>>),
       (* 1.e4 a6 2.e5 d5: the pawn e5 may take en passant *)
       PlayLine(initializeGameState, <<6444, 1020, 4434, 1333>>),
       (* 1.e4 e5 2.Nf3 Nc6 3.Bc4 Bc5: White may castle on the king's side *)
       PlayLine(initializeGameState, <<6444, 1434, 7655, 122, 7542, 532>>),
       (* 1.d4 d5 2.Nc3 Nc6 3.Bf4 Bf5 4.Qd2 Qd7 5.O-O-O: Black may castle on *)
       (* the queen's side                                                   *)
       PlayLine(initializeGameState,
                <<6343, 1333, 7152, 122, 7245, 235, 7363, 313, 7472>>),
       (* the black king a8 stalemated by the white queen b6 *)
       PositionOf({<<0, 0, "k">>, <<2, 1, "Q">>, <<7, 7, "K">>}, FALSE, 50),
       (* the white rook e4 between king e1 and the black rook e8, the black *)
       (* knight f3 giving check                                             *)
       PositionOf({<<7, 4, "K">>, <<4, 4, "R">>, <<0, 4, "r">>, <<5, 5, "n">>, <<0, 7, "k">>},
                  TRUE, 50),
       (* the white pawn f2 between king e1 and the black bishop g3 *)
       PositionOf({<<7, 4, "K">>, <<6, 5, "P">>, <<5, 6, "b">>, <<5, 4, "n">>, <<0, 7, "k">>},
                  TRUE, 50),
       (* the white rook e4 between king e1 and the black rook e8 *)
       PositionOf({<<7, 4, "K">>, <<4, 4, "R">>, <<0, 4, "r">>, <<0, 7, "k">>}, TRUE, 50),
       (* the white knight d2 between king e1 and the black bishop a5 *)
       PositionOf({<<7, 4, "K">>, <<6, 3, "N">>, <<3, 0, "b">>, <<0, 7, "k">>}, TRUE, 50),
       (* the black bishop d8 between king a8 and the white queen h8 *)
       PositionOf({<<0, 0, "k">>, <<0, 3, "b">>, <<0, 7, "Q">>, <<7, 4, "K">>}, FALSE, 50),
       (* king e1 and rook h1 unmoved, the black rook f8 looking at f1 *)
       [PositionOf({<<7, 4, "K">>, <<7, 7, "R">>, <<0, 5, "r">>, <<0, 0, "k">>}, TRUE, 50)
            EXCEPT !.canWhiteCastleKingside = TRUE],
       (* king e1 and rook a1 unmoved, the black rook b8 looking at b1 *)
       [PositionOf({<<7, 4, "K">>, <<7, 0, "R">>, <<0, 1, "r">>, <<0, 7, "k">>}, TRUE, 50)
            EXCEPT !.canWhiteCastleQueenside = TRUE],
       (* king e8 and rook h8 back on their squares after the king has moved *)
       PositionOf({<<0, 4, "k">>, <<0, 7, "r">>, <<7, 4, "K">>}, FALSE, 50),
       (* the black pawn d5, which has just made its double step, between    *)
       (* the black rook h5 and the white king c5, beside the white pawn e5  *)
       [PositionOf({<<3, 2, "K">>, <<3, 4, "P">>, <<3, 3, "p">>, <<3, 7, "r">>, <<0, 4, "k">>},
                   TRUE, 50)
            EXCEPT !.enPassantTargetRow = 2, !.enPassantTargetCol = 3],
       (* the white king e1 between its rook a1 and knight c1 and the black  *)
       (* rook h1, which gives check along the first rank                    *)
       PositionOf({<<7, 4, "K">>, <<7, 0, "R">>, <<7, 2, "N">>, <<7, 7, "r">>, <<0, 7, "k">>},
                  TRUE, 50),
       (* the white king d4 between its bishop b2 and the black bishop g7,   *)
       (* which gives check along the diagonal                               *)
       PositionOf({<<4, 3, "K">>, <<6, 1, "B">>, <<1, 6, "b">>, <<0, 0, "k">>}, TRUE, 50),
       (* the white king e1 between its rook a1 and a black bishop on h1,    *)
       (* which gives no check                                               *)
       PositionOf({<<7, 4, "K">>, <<7, 0, "R">>, <<7, 7, "b">>, <<0, 7, "k">>}, TRUE, 50)
    >>

(* The coordinates a caller may pass: those of the board and one beyond    *)
(* either edge.                                                            *)
Coordinates == -1 .. BOARD_SIZE

InitQuery ==
    /\ \E k \in 1 .. Len(QueryPositions) : state = QueryPositions[k]
    /\ hist = <<>>
    /\ prev = state
    /\ over = "no"
    /\ NoSession
    /\ NoSearch
    /\ seen = <<state>>
    /\ stored = <<>>
    /\ query = NoCall

(* The call fn(args) returned r. *)
QueryReturned(fn, args, r) ==
    /\ state' = r.state
    /\ query' = [fn |-> fn, args |-> args, value |-> r.value,
                 entry |-> state, exit |-> r.state]
    /\ UNCHANGED <<hist, prev, over, netVars, aiVars, seen, stored>>

CallIsValidMove ==
    /\ query.fn = "none"
    /\ \E fromRow \in Coordinates, fromCol \in Coordinates,
          toRow \in Coordinates, toCol \in Coordinates :
          QueryReturned("isValidMove", <<fromRow, fromCol, toRow, toCol>>,
                   isValidMoveRun(state, fromRow, fromCol, toRow, toCol))

(* isValidMove of the earlier variant; the turn isSquareAttacked sets for  *)
(* its calls is put back after each, and isValidCastling tries the king's  *)
(* squares on a copy.                                                      *)
CallIsValidMove_part_000 ==
    /\ query.fn = "none"
    /\ \E fromRow \in Coordinates, fromCol \in Coordinates,
          toRow \in Coordinates, toCol \in Coordinates :
          QueryReturned("isValidMove_part_000", <<fromRow, fromCol, toRow, toCol>>,
                   Ret(isValidMove_part_000(state, fromRow, fromCol, toRow, toCol), state))

CallIsSquareAttacked ==
    /\ query.fn = "none"
    /\ \E row \in Rows, col \in Rows, byWhite \in BOOLEAN :
          QueryReturned("isSquareAttacked", <<row, col, byWhite>>,
                   isSquareAttackedRun(state, row, col, byWhite))

CallIsInCheck ==
    /\ query.fn = "none"
    /\ \E isWhiteKing \in BOOLEAN :
          QueryReturned("isInCheck", <<isWhiteKing>>, isInCheckRun(state, isWhiteKing))

CallIsPieceUnderAttack ==
    /\ query.fn = "none"
    /\ \E row \in Rows, col \in Rows :
          QueryReturned("isPieceUnderAttack", <<row, col>>, isPieceUnderAttackRun(state, row, col))

CallIsCheckmate ==
    /\ query.fn = "none"
    /\ QueryReturned("isCheckmate", <<>>, isCheckmateRun(state))

CallIsStalemate ==
    /\ query.fn = "none"
    /\ QueryReturned("isStalemate", <<>>, isStalemateRun(state))

CallGenerateAllMoves ==
    /\ query.fn = "none"
    /\ QueryReturned("generateAllMoves", <<>>, generateAllMovesRun(state))

NextQuery ==
    \/ CallIsValidMove
    \/ CallIsValidMove_part_000
    \/ CallIsSquareAttacked
    \/ CallIsInCheck
    \/ CallIsPieceUnderAttack
    \/ CallIsCheckmate
    \/ CallIsStalemate
    \/ CallGenerateAllMoves

SpecQuery == InitQuery /\ [][NextQuery]_vars

(***************************************************************************)
(* Properties of the game played through main's loop (Spec)                *)
(***************************************************************************)
LastMove == hist[Len(hist)]

(* C2: every move generateAllMoves returns for the side to move, applied   *)
(* with makeMove, leaves the mover's own king unattacked (en passant and   *)
(* castling included).                                                     *)
GeneratedMovesLeaveOwnKingSafe ==
    \A k \in 1 .. Len(GeneratedMoves(state)) :
        LET m == GeneratedMoves(state)[k]
        IN  \A promotion \in PromotionsFor(state, m) :
                ~isInCheck(makeMove(state, m[1], m[2], m[3], m[4], promotion),
                           state.isWhiteTurn)

(* C3: every position reached by accepted moves holds exactly one white    *)
(* king and exactly one black king, and no move isValidMove accepts lands  *)
(* on a king.                                                              *)
ExactlyOneKingEach ==
    /\ CountOf(state, {WHITE_KING}) = 1
    /\ CountOf(state, {BLACK_KING}) = 1
    /\ \A k \in 1 .. Len(GeneratedMoves(state)) :
           toupper(At(state, GeneratedMoves(state)[k][3], GeneratedMoves(state)[k][4]))
               # WHITE_KING

NoAcceptedPair(s) ==
    \A fromRow \in Rows, fromCol \in Rows, toRow \in Rows, toCol \in Rows :
        ~isValidMove(s, fromRow, fromCol, toRow, toCol)

(* C4: isCheckmate holds exactly when the side to move is in check and     *)
(* isValidMove accepts no (from, to) pair; isStalemate holds exactly when  *)
(* the side to move is not in check and isValidMove accepts no pair; the   *)
(* two never hold together.                                                *)
CheckmateStalemateCharacterised ==
    /\ isCheckmate(state) <=> (isInCheck(state, state.isWhiteTurn) /\ NoAcceptedPair(state))
    /\ isStalemate(state) <=> (~isInCheck(state, state.isWhiteTurn) /\ NoAcceptedPair(state))
    /\ ~(isCheckmate(state) /\ isStalemate(state))

(* The position after 1.f3 e5 2.g4 Qh4: reported checkmate, not stalemate. *)
FoolsMateIsCheckmate ==
    /\ hist = <<DecodeMove(6555), DecodeMove(1434), DecodeMove(6646), DecodeMove(347)>>
    /\ over = "checkmate"
    /\ isCheckmate(state) /\ ~isStalemate(state)
    /\ isInCheck(state, TRUE) /\ NoAcceptedPair(state)

(* The pawns of the side to move that stand beside the enemy pawn whose    *)
(* double step set the en-passant target.                                  *)
EnPassantCapturers(s) ==
    LET direction == IF s.isWhiteTurn THEN -1 ELSE 1
        own == IF s.isWhiteTurn THEN WHITE_PAWN ELSE BLACK_PAWN
        enemy == IF s.isWhiteTurn THEN BLACK_PAWN ELSE WHITE_PAWN
        pawnRow == s.enPassantTargetRow - direction
    IN  IF s.enPassantTargetRow = -1 THEN {}
        ELSE {c \in Rows : /\ abs(c - s.enPassantTargetCol) = 1
                           /\ At(s, pawnRow, c) = own
                           /\ At(s, pawnRow, s.enPassantTargetCol) = enemy
                           /\ At(s, s.enPassantTargetRow, s.enPassantTargetCol) = EMPTY}

EnPassantBoard(s, fromCol) ==
    LET direction == IF s.isWhiteTurn THEN -1 ELSE 1
        pawnRow == s.enPassantTargetRow - direction
    IN  [[[s.board EXCEPT ![Idx(pawnRow, fromCol)] = EMPTY]
                   EXCEPT ![Idx(pawnRow, s.enPassantTargetCol)] = EMPTY]
                   EXCEPT ![Idx(s.enPassantTargetRow, s.enPassantTargetCol)] =
                               s.board[Idx(pawnRow, fromCol)]]

(* C8: after an enemy pawn's double step, a pawn beside it is accepted by  *)
(* isValidMove onto the empty en-passant target whenever the capture does  *)
(* not leave its own king attacked, and makeMove removes the double-       *)
(* stepped pawn from (fromRow, toCol), puts the capturer on the target and *)
(* changes no other square.                                                *)
EnPassantAcceptedAndApplied ==
    \A fromCol \in EnPassantCapturers(state) :
        LET direction == IF state.isWhiteTurn THEN -1 ELSE 1
            fromRow == state.enPassantTargetRow - direction
            toRow == state.enPassantTargetRow
            toCol == state.enPassantTargetCol
            after == makeMove(state, fromRow, fromCol, toRow, toCol, "Q")
        IN  /\ ~isInCheck(after, state.isWhiteTurn)
                  => isValidMove(state, fromRow, fromCol, toRow, toCol)
            /\ after.board = EnPassantBoard(state, fromCol)

(* The preconditions of castling for the side to move. *)
CastlingPreconditions(s, isKingSide) ==
    LET isWhite == s.isWhiteTurn
        row == IF isWhite THEN 7 ELSE 0
        rookCol == IF isKingSide THEN 7 ELSE 0
        step == IF isKingSide THEN 1 ELSE -1
    IN  /\ CASE isWhite /\ isKingSide -> s.canWhiteCastleKingside
              [] isWhite /\ ~isKingSide -> s.canWhiteCastleQueenside
              [] ~isWhite /\ isKingSide -> s.canBlackCastleKingside
              [] OTHER -> s.canBlackCastleQueenside
        /\ At(s, row, 4) = (IF isWhite THEN WHITE_KING ELSE BLACK_KING)
        /\ At(s, row, rookCol) = (IF isWhite THEN WHITE_ROOK ELSE BLACK_ROOK)
        /\ \A c \in Rows : (c > 0 /\ c < 7 /\ c # 4 /\ (c > 4) = isKingSide)
                               => At(s, row, c) = EMPTY
        /\ \A k \in 0 .. 2 : ~isSquareAttacked(s, row, 4 + k * step, ~isWhite)

(* The state s after the side to move in before castled on the given side. *)
CastledFrom(before, s, isKingSide) ==
    LET isWhite == before.isWhiteTurn
        row == IF isWhite THEN 7 ELSE 0
        rookFromCol == IF isKingSide THEN 7 ELSE 0
        rookToCol == IF isKingSide THEN 5 ELSE 3
        kingToCol == IF isKingSide THEN 6 ELSE 2
    IN  /\ At(s, row, kingToCol) = At(before, row, 4)
        /\ At(s, row, rookToCol) = At(before, row, rookFromCol)
        /\ At(s, row, 4) = EMPTY
        /\ At(s, row, rookFromCol) = EMPTY
        /\ \A i \in Squares :
               i \notin {Idx(row, 4), Idx(row, kingToCol), Idx(row, rookToCol), Idx(row, rookFromCol)}
                   => s.board[i] = before.board[i]
        /\ IF isWhite THEN ~s.canWhiteCastleKingside /\ ~s.canWhiteCastleQueenside
                      ELSE ~s.canBlackCastleKingside /\ ~s.canBlackCastleQueenside

(* C9: when the castling preconditions hold for the side to move,          *)
(* isValidMove accepts the king's two-square move, and makeMove relocates  *)
(* the rook to the square the king crossed and clears both castling rights *)
(* of that side.                                                           *)
CastlingAcceptedAndApplied ==
    \A isKingSide \in BOOLEAN :
        LET row == IF state.isWhiteTurn THEN 7 ELSE 0
            toCol == IF isKingSide THEN 6 ELSE 2
        IN  CastlingPreconditions(state, isKingSide)
                => /\ isValidMove(state, row, 4, row, toCol)
                   /\ CastledFrom(state, makeMove(state, row, 4, row, toCol, "Q"), isKingSide)

(* White has castled king-side: (7,4)->(7,6) with the rook (7,7)->(7,5). *)
WhiteCastledKingSide ==
    /\ hist # <<>>
    /\ LastMove = <<7, 4, 7, 6>>
    /\ CastlingPreconditions(prev, TRUE)
    /\ At(state, 7, 6) = WHITE_KING /\ At(state, 7, 5) = WHITE_ROOK
    /\ At(state, 7, 7) = EMPTY /\ At(state, 7, 4) = EMPTY
    /\ ~state.canWhiteCastleKingside /\ ~state.canWhiteCastleQueenside

RECURSIVE SumSeq(_)
SumSeq(q) == IF q = <<>> THEN 0 ELSE Head(q) + SumSeq(Tail(q))

(* The number of moves generateAllMoves returns, summed over the positions *)
(* that follow each move generateAllMoves returns for s.                   *)
SecondPlyTotal(s) ==
    SumSeq([k \in 1 .. Len(GeneratedMoves(s)) |->
               LET m == GeneratedMoves(s)[k]
               IN  Len(GeneratedMoves(FlipTurn(makeMove(s, m[1], m[2], m[3], m[4], "Q"))))])

(* C10: in the initial position generateAllMoves returns exactly 20 moves  *)
(* for White, and the positions after each of them give Black 400 moves in *)
(* total.                                                                  *)
InitialPositionMoveCounts ==
    state = initializeGameState
        => Len(GeneratedMoves(state)) = 20 /\ SecondPlyTotal(state) = 400

(* A second-ply position: one generated move made from the initial         *)
(* position.                                                               *)
SecondPlyPositionReached ==
    /\ Len(hist) = 1
    /\ prev = initializeGameState
    /\ \E k \in 1 .. Len(GeneratedMoves(prev)) : GeneratedMoves(prev)[k] = LastMove
    /\ Len(GeneratedMoves(prev)) = 20
    /\ Len(GeneratedMoves(state)) = 20

(* C7: decoding the FEN string of a position with fenToGameState gives     *)
(* back the same board, side to move, four can*Castle* rights, en-passant  *)
(* target, halfmove clock and fullmove number.                             *)
FenRoundTripPreservesState ==
    LET t == fenToGameState(gameStateToFEN(state))
    IN  /\ t.board = state.board
        /\ t.isWhiteTurn = state.isWhiteTurn
        /\ t.canWhiteCastleKingside = state.canWhiteCastleKingside
        /\ t.canWhiteCastleQueenside = state.canWhiteCastleQueenside
        /\ t.canBlackCastleKingside = state.canBlackCastleKingside
        /\ t.canBlackCastleQueenside = state.canBlackCastleQueenside
        /\ t.enPassantTargetRow = state.enPassantTargetRow
        /\ t.enPassantTargetCol = state.enPassantTargetCol
        /\ t.halfmoveClock = state.halfmoveClock
        /\ t.fullmoveNumber = state.fullmoveNumber

PieceCount(s) == Cardinality({i \in Squares : s.board[i] # EMPTY})

(* C20: after a move the halfmove clock is 0 if the move was a pawn move   *)
(* or a capture (en passant included), and one more than before the move   *)
(* otherwise.                                                              *)
HalfmoveClockFollowsMoves ==
    hist # <<>>
    => state.halfmoveClock =
          IF \/ At(prev, LastMove[1], LastMove[2]) \in {WHITE_PAWN, BLACK_PAWN}
             \/ PieceCount(state) < PieceCount(prev)
          THEN 0
          ELSE prev.halfmoveClock + 1

(* A piece other than a pawn has just captured and the clock, which was    *)
(* running, is back at 0.                                                  *)
CaptureByPieceResetClock ==
    /\ hist # <<>>
    /\ At(prev, LastMove[1], LastMove[2]) \notin {WHITE_PAWN, BLACK_PAWN}
    /\ At(prev, LastMove[3], LastMove[4]) # EMPTY
    /\ prev.halfmoveClock > 0
    /\ state.halfmoveClock = 0

BothKingsOnBoard(s) == FindKing(s, WHITE_KING) # 0 /\ FindKing(s, BLACK_KING) # 0

(* The king of the colour on its home square and a rook of that colour on  *)
(* the corner of the given side.                                           *)
KingAndRookAtHome(s, isWhite, isKingSide) ==
    /\ At(s, IF isWhite THEN 7 ELSE 0, 4) = (IF isWhite THEN WHITE_KING ELSE BLACK_KING)
    /\ At(s, IF isWhite THEN 7 ELSE 0, IF isKingSide THEN 7 ELSE 0)
           = (IF isWhite THEN WHITE_ROOK ELSE BLACK_ROOK)

(* C28: in every position of a game played from the initial position in    *)
(* which both kings are on the board, a castling right that is still set   *)
(* has its king on the home square and a rook of its colour on its corner. *)
CastlingRightsImplyHomeSquares ==
    BothKingsOnBoard(state)
    => /\ state.canWhiteCastleKingside => KingAndRookAtHome(state, TRUE, TRUE)
       /\ state.canWhiteCastleQueenside => KingAndRookAtHome(state, TRUE, FALSE)
       /\ state.canBlackCastleKingside => KingAndRookAtHome(state, FALSE, TRUE)
       /\ state.canBlackCastleQueenside => KingAndRookAtHome(state, FALSE, FALSE)

(* The black rook has just been taken on h8 with the king still on e8:     *)
(* Black has lost the right on the king's side and kept the other one.     *)
RookTakenOnCornerLostRight ==
    /\ hist # <<>>
    /\ LastMove[3] = 0 /\ LastMove[4] = 7
    /\ At(prev, 0, 7) = BLACK_ROOK
    /\ prev.canBlackCastleKingside
    /\ BothKingsOnBoard(state)
    /\ ~state.canBlackCastleKingside
    /\ state.canBlackCastleQueenside
    /\ KingAndRookAtHome(state, FALSE, FALSE)

(***************************************************************************)
(* Properties of the games taken up from given positions (SpecStudy)       *)
(***************************************************************************)
(* The same position: board, side to move, castling rights and en-passant  *)
(* target.                                                                 *)
SamePosition(a, b) ==
    /\ a.board = b.board
    /\ a.isWhiteTurn = b.isWhiteTurn
    /\ a.canWhiteCastleKingside = b.canWhiteCastleKingside
    /\ a.canWhiteCastleQueenside = b.canWhiteCastleQueenside
    /\ a.canBlackCastleKingside = b.canBlackCastleKingside
    /\ a.canBlackCastleQueenside = b.canBlackCastleQueenside
    /\ a.enPassantTargetRow = b.enPassantTargetRow
    /\ a.enPassantTargetCol = b.enPassantTargetCol

(* How many times the game has been in the position it is in now. *)
Occurrences == Cardinality({k \in 1 .. Len(seen) : SamePosition(seen[k], state)})

OnlyKings(s) == \A i \in Squares : s.board[i] \in {EMPTY, WHITE_KING, BLACK_KING}

(* C11: isDraw holds exactly when isStalemate or isInsufficientMaterial    *)
(* holds or the halfmove clock is at least 100; a position reached three   *)
(* or more times with the clock below 100 is no draw on that account; a    *)
(* position with halfmove clock 100 is a draw, and so is a board with only *)
(* the two kings.                                                          *)
DrawCharacterised ==
    /\ isDraw(state) <=> \/ isStalemate(state)
                         \/ isInsufficientMaterial(state)
                         \/ state.halfmoveClock >= 100
    /\ (/\ Occurrences >= 3
        /\ state.halfmoveClock < 100
        /\ ~isStalemate(state)
        /\ ~isInsufficientMaterial(state)) => ~isDraw(state)
    /\ state.halfmoveClock = 100 => isDraw(state)
    /\ OnlyKings(state) => isDraw(state)

(* The rooks have shuffled back to their squares twice: the position is    *)
(* there for the third time, with the halfmove clock below 100, and it is  *)
(* no draw.                                                                *)
ThirdOccurrenceIsNoDraw ==
    /\ Occurrences >= 3
    /\ state.halfmoveClock < 100
    /\ Len(hist) >= 8
    /\ ~isDraw(state)

(* The squares holding one of the given pieces. *)
SquaresWith(s, pieces) == {i \in Squares : s.board[i] \in pieces}

SquareColour(i) == (RowOf(i) + ColOf(i)) % 2

(* The material on the board apart from the kings is: nothing; or one      *)
(* bishop or one knight of one side; or one bishop each, on squares of the *)
(* same colour; or one knight each.                                        *)
DrawnMaterial(s) ==
    LET whiteMinors == SquaresWith(s, {WHITE_BISHOP, WHITE_KNIGHT})
        blackMinors == SquaresWith(s, {BLACK_BISHOP, BLACK_KNIGHT})
        bishops == SquaresWith(s, {WHITE_BISHOP, BLACK_BISHOP})
        knights == SquaresWith(s, {WHITE_KNIGHT, BLACK_KNIGHT})
    IN  \/ whiteMinors = {} /\ blackMinors = {}
        \/ Cardinality(whiteMinors) = 1 /\ blackMinors = {}
        \/ whiteMinors = {} /\ Cardinality(blackMinors) = 1
        \/ /\ Cardinality(whiteMinors) = 1 /\ Cardinality(blackMinors) = 1
           /\ \/ knights = {} /\ \A i \in bishops, j \in bishops : SquareColour(i) = SquareColour(j)
              \/ bishops = {}

(* C12: isInsufficientMaterial is false whenever a pawn, a rook or a queen *)
(* of either colour is on the board; otherwise it is true exactly for king *)
(* against king, king and one minor piece against king, king and bishop    *)
(* against king and bishop on squares of the same colour, and king and     *)
(* knight against king and knight.                                         *)
InsufficientMaterialCharacterised ==
    /\ SquaresWith(state, {WHITE_PAWN, WHITE_ROOK, WHITE_QUEEN,
                           BLACK_PAWN, BLACK_ROOK, BLACK_QUEEN}) # {}
           => ~isInsufficientMaterial(state)
    /\ SquaresWith(state, {WHITE_PAWN, WHITE_ROOK, WHITE_QUEEN,
                           BLACK_PAWN, BLACK_ROOK, BLACK_QUEEN}) = {}
           => (isInsufficientMaterial(state) <=> DrawnMaterial(state))

(* King and bishop against king and bishop on squares of the same colour   *)
(* is found insufficient.                                                  *)
SameColouredBishopsInsufficient ==
    /\ Cardinality(SquaresWith(state, {WHITE_BISHOP})) = 1
    /\ Cardinality(SquaresWith(state, {BLACK_BISHOP})) = 1
    /\ Cardinality(SquaresWith(state, WhitePieces \cup BlackPieces)) = 4
    /\ isInsufficientMaterial(state)

Sign(x) == IF x > 0 THEN 1 ELSE IF x < 0 THEN -1 ELSE 0

(* The squares strictly between (r1, c1) and (r2, c2), which lie on one    *)
(* rank, file or diagonal.                                                 *)
SquaresBetween(r1, c1, r2, c2) ==
    {Idx(r1 + k * Sign(r2 - r1), c1 + k * Sign(c2 - c1)) :
        k \in 1 .. ((IF abs(r2 - r1) > abs(c2 - c1) THEN abs(r2 - r1) ELSE abs(c2 - c1)) - 1)}

OnRankOrFile(r1, c1, r2, c2) == (r1 = r2) # (c1 = c2)

OnDiagonal(r1, c1, r2, c2) == abs(r1 - r2) = abs(c1 - c2) /\ r1 # r2

(* The piece on square i has an attack pattern onto (row, col). *)
AttackPattern(s, i, row, col) ==
    LET piece == s.board[i]
        r == RowOf(i)
        c == ColOf(i)
        open == \A b \in SquaresBetween(r, c, row, col) : s.board[b] = EMPTY
    IN  \/ piece = WHITE_PAWN /\ row = r - 1 /\ abs(col - c) = 1
        \/ piece = BLACK_PAWN /\ row = r + 1 /\ abs(col - c) = 1
        \/ piece \in {WHITE_KNIGHT, BLACK_KNIGHT}
             /\ {abs(row - r), abs(col - c)} = {1, 2}
        \/ piece \in {WHITE_ROOK, BLACK_ROOK, WHITE_QUEEN, BLACK_QUEEN}
             /\ OnRankOrFile(r, c, row, col) /\ open
        \/ piece \in {WHITE_BISHOP, BLACK_BISHOP, WHITE_QUEEN, BLACK_QUEEN}
             /\ OnDiagonal(r, c, row, col) /\ open
        \/ piece \in {WHITE_KING, BLACK_KING}
             /\ abs(row - r) <= 1 /\ abs(col - c) <= 1 /\ Idx(row, col) # i

(* C14: isSquareAttacked holds exactly when some piece of the given colour *)
(* has an attack pattern onto the square (a pawn diagonally forward, a     *)
(* knight offset, an open rook, bishop or queen line, an adjacent king);   *)
(* the result is the same whichever side is to move, and whether or not    *)
(* the attacking piece is pinned or its own king is in check.              *)
SquareAttackedCharacterised ==
    \A row \in Rows, col \in Rows, byWhite \in BOOLEAN :
        /\ isSquareAttacked(state, row, col, byWhite)
               <=> \E i \in SquaresWith(state, IF byWhite THEN WhitePieces ELSE BlackPieces) :
                       AttackPattern(state, i, row, col)
        /\ isSquareAttacked(state, row, col, byWhite)
               <=> isSquareAttacked(FlipTurn(state), row, col, byWhite)

(* The white rook on e4, pinned by the rook on e8 while the knight on f3   *)
(* checks the white king, is found to attack a4; White is to move.         *)
PinnedRookAttacksSideways ==
    /\ hist = <<>>
    /\ At(state, 4, 4) = WHITE_ROOK
    /\ At(state, 0, 4) = BLACK_ROOK
    /\ At(state, 5, 5) = BLACK_KNIGHT
    /\ At(state, 7, 4) = WHITE_KING
    /\ state.isWhiteTurn
    /\ isInCheck(state, TRUE)
    /\ isSquareAttacked(state, 4, 0, TRUE)

(* The enemy rooks, bishops and queens that pin the piece on square i: the *)
(* piece stands between its own king and the slider on a line the slider   *)
(* moves along, and no other piece stands between king and slider.         *)
PinnersOf(s, i) ==
    LET white == isupper(s.board[i])
        k == FindKing(s, IF white THEN WHITE_KING ELSE BLACK_KING)
    IN  IF s.board[i] = EMPTY \/ k = 0 \/ k = i THEN {}
        ELSE {j \in SquaresWith(s, IF white THEN {BLACK_ROOK, BLACK_BISHOP, BLACK_QUEEN}
                                            ELSE {WHITE_ROOK, WHITE_BISHOP, WHITE_QUEEN}) :
                /\ \/ /\ OnRankOrFile(RowOf(k), ColOf(k), RowOf(j), ColOf(j))
                      /\ toupper(s.board[j]) \in {WHITE_ROOK, WHITE_QUEEN}
                   \/ /\ OnDiagonal(RowOf(k), ColOf(k), RowOf(j), ColOf(j))
                      /\ toupper(s.board[j]) \in {WHITE_BISHOP, WHITE_QUEEN}
                /\ i \in SquaresBetween(RowOf(k), ColOf(k), RowOf(j), ColOf(j))
                /\ \A b \in SquaresBetween(RowOf(k), ColOf(k), RowOf(j), ColOf(j)) \ {i} :
                       s.board[b] = EMPTY}

(* C18: getPinInfo reports isPinned exactly when the piece stands between  *)
(* its own king and an enemy slider moving along that line with no other   *)
(* piece between king and slider; pinDirection is then the direction of    *)
(* the line and pinningPieceRow/Col the slider's square.                   *)
PinInfoCharacterised ==
    \A i \in Squares :
        LET pin == getPinInfo(state, RowOf(i), ColOf(i))
            k == FindKing(state, IF isupper(state.board[i]) THEN WHITE_KING ELSE BLACK_KING)
            towardsKing == <<Sign(RowOf(k) - RowOf(i)), Sign(ColOf(k) - ColOf(i))>>
        IN  /\ pin.isPinned <=> PinnersOf(state, i) # {}
            /\ pin.isPinned =>
                  /\ Idx(pin.pinningPieceRow, pin.pinningPieceCol) \in PinnersOf(state, i)
                  /\ pin.pinDirection \in {towardsKing, <<-towardsKing[1], -towardsKing[2]>>}

(* No pawn of either colour stands on row 0 or row 7 of s. *)
NoPawnOnLastRanks(s) ==
    \A col \in 0 .. BOARD_SIZE - 1 :
        /\ At(s, 0, col) \notin {WHITE_PAWN, BLACK_PAWN}
        /\ At(s, 7, col) \notin {WHITE_PAWN, BLACK_PAWN}

(* C21: after a move made with makeMove no pawn stands on row 0 or row 7,  *)
(* and where a pawn has arrived on its last rank there stands a queen,     *)
(* rook, bishop or knight of the mover's colour.                           *)
PromotionReplacesPawn ==
    hist # <<>>
    => /\ NoPawnOnLastRanks(state)
       /\ IsPromotion(prev, LastMove[1], LastMove[2], LastMove[3], LastMove[4])
          => At(state, LastMove[3], LastMove[4]) \in
                (IF prev.isWhiteTurn
                 THEN {WHITE_QUEEN, WHITE_ROOK, WHITE_BISHOP, WHITE_KNIGHT}
                 ELSE {BLACK_QUEEN, BLACK_ROOK, BLACK_BISHOP, BLACK_KNIGHT})

(* The black pawn h2 has taken the knight g1 and a black knight stands     *)
(* there.                                                                  *)
BlackPawnBecameKnight ==
    /\ hist # <<>>
    /\ At(prev, LastMove[1], LastMove[2]) = BLACK_PAWN
    /\ LastMove[3] = 7
    /\ At(prev, LastMove[3], LastMove[4]) = WHITE_KNIGHT
    /\ At(state, LastMove[3], LastMove[4]) = BLACK_KNIGHT

(***************************************************************************)
(* Properties of the evaluation cache (SpecCache)                          *)
(***************************************************************************)
(* C13: once 65 pairwise distinct entries have been stored in the empty    *)
(* cache, getCachedEvaluation misses the first of them and returns the     *)
(* stored value of each of the 2nd to 65th; and a position that was never  *)
(* stored is always a miss.                                                *)
CacheEvictsFirstOfSixtyFive ==
    /\ Len(stored) = 65 =>
           /\ getCachedEvaluation(evalCache, stored[1]) = INT_MIN
           /\ \A k \in 2 .. 65 :
                  getCachedEvaluation(evalCache, stored[k]) = ComputeEvaluation(stored[k])
    /\ \A k \in (Len(stored) + 1) .. (MaxStored + 1) :
           getCachedEvaluation(evalCache, CachePosition(k)) = INT_MIN
    /\ (query.fn = "getCachedEvaluation" /\ query.args[1] > Len(stored))
           => query.value = INT_MIN

(* With 65 entries stored the first has been looked up and was a miss. *)
FirstEntryLookedUpAfterSixtyFive ==
    /\ Len(stored) = 65
    /\ cacheIndex = 65
    /\ query.fn = "getCachedEvaluation"
    /\ query.args = <<1>>
    /\ query.value = INT_MIN

(***************************************************************************)
(* Properties of the queries called on given positions (SpecQuery)         *)
(***************************************************************************)
(* What the call recorded in q answers on the position it was given. *)
Answer(q) ==
    CASE q.fn = "isValidMove" ->
           isValidMove(q.entry, q.args[1], q.args[2], q.args[3], q.args[4])
      [] q.fn = "isValidMove_part_000" ->
           isValidMove_part_000(q.entry, q.args[1], q.args[2], q.args[3], q.args[4])
      [] q.fn = "isSquareAttacked" ->
           isSquareAttacked(q.entry, q.args[1], q.args[2], q.args[3])
      [] q.fn = "isInCheck" -> isInCheck(q.entry, q.args[1])
      [] q.fn = "isPieceUnderAttack" -> isPieceUnderAttack(q.entry, q.args[1], q.args[2])
      [] q.fn = "isCheckmate" -> isCheckmate(q.entry)
      [] q.fn = "isStalemate" -> isStalemate(q.entry)
      [] q.fn = "generateAllMoves" -> generateAllMoves(q.entry)

OnBoard(x) == x >= 0 /\ x < BOARD_SIZE

OwnPiece(s, piece) ==
    (s.isWhiteTurn /\ isupper(piece)) \/ (~s.isWhiteTurn /\ islower(piece))

(* The move is one isValidMove is to refuse out of hand: a coordinate off  *)
(* the board, nothing to move, a piece of the other side, or a piece of    *)
(* the mover's own side on the destination.                                *)
RefusedOutOfHand(s, fromRow, fromCol, toRow, toCol) ==
    \/ ~(OnBoard(fromRow) /\ OnBoard(fromCol) /\ OnBoard(toRow) /\ OnBoard(toCol))
    \/ ~OwnPiece(s, At(s, fromRow, fromCol))
    \/ OwnPiece(s, At(s, toRow, toCol))

(* C15: isValidMove returns false, and leaves the position as it was, when *)
(* a coordinate is outside 0..7, the source square is empty, the piece on  *)
(* it is not of the side to move, or the destination holds a piece of the  *)
(* mover's own colour (the source square itself included).                 *)
BadMovesRefused ==
    (query.fn = "isValidMove"
        /\ RefusedOutOfHand(query.entry, query.args[1], query.args[2],
                            query.args[3], query.args[4]))
    => (query.value = FALSE /\ query.exit = query.entry /\ state = query.entry)

(* isValidMove was asked about the white king e1 staying on e1 in the      *)
(* initial position and said no.                                           *)
MoveOntoItselfRefused ==
    /\ query.fn = "isValidMove"
    /\ query.entry = initializeGameState
    /\ query.args = <<7, 4, 7, 4>>
    /\ query.value = FALSE

(* C16: isValidMove, isSquareAttacked, isInCheck, isPieceUnderAttack,      *)
(* isCheckmate, isStalemate and generateAllMoves return with every field   *)
(* of the position as it was on entry, on every return path; what they     *)
(* return is what they answer on the untouched position.                   *)
QueriesLeavePositionAsOnEntry ==
    query.fn # "none"
    => (query.exit = query.entry /\ state = query.entry /\ query.value = Answer(query))

(* isPieceUnderAttack took its early exit for a piece of the side to move: *)
(* the turn had been set to the other side for the attacker found.         *)
EarlyExitOfIsPieceUnderAttack ==
    /\ query.fn = "isPieceUnderAttack"
    /\ query.value = TRUE
    /\ OwnPiece(query.entry, At(query.entry, query.args[1], query.args[2]))

(* Some piece of the given colour has an attack pattern onto (row, col). *)
AttackedBy(s, row, col, byWhite) ==
    \E i \in SquaresWith(s, IF byWhite THEN WhitePieces ELSE BlackPieces) :
        AttackPattern(s, i, row, col)

(* What has to hold for the king of the side to move to castle from        *)
(* (fromRow, fromCol) to column toCol.                                     *)
MayCastle(s, fromRow, fromCol, toCol) ==
    LET white == s.isWhiteTurn
        rookCol == IF toCol > fromCol THEN 7 ELSE 0
        crossedCol == (fromCol + toCol) \div 2
    IN  /\ fromRow = (IF white THEN 7 ELSE 0) /\ fromCol = 4
        /\ CASE white /\ rookCol = 7 -> s.canWhiteCastleKingside
              [] white /\ rookCol = 0 -> s.canWhiteCastleQueenside
              [] ~white /\ rookCol = 7 -> s.canBlackCastleKingside
              [] ~white /\ rookCol = 0 -> s.canBlackCastleQueenside
        /\ At(s, fromRow, rookCol) = (IF white THEN WHITE_ROOK ELSE BLACK_ROOK)
        /\ \A c \in Rows : ((c > fromCol /\ c < rookCol) \/ (c < fromCol /\ c > rookCol))
                                => At(s, fromRow, c) = EMPTY
        /\ \A c \in {fromCol, crossedCol, toCol} : ~AttackedBy(s, fromRow, c, ~white)

(* C17: isValidMove accepts a two-square horizontal king move only if the  *)
(* king is on its home square (row 7 for White, row 0 for Black, column    *)
(* 4), the castling right for that side is still there, the own rook is on *)
(* the corner, the squares between king and rook are empty, and none of    *)
(* the king's square, the square it crosses and its destination is         *)
(* attacked by the other side.                                             *)
CastlingAcceptedOnlyIfAllowed ==
    (/\ query.fn = "isValidMove"
     /\ query.value = TRUE
     /\ toupper(At(query.entry, query.args[1], query.args[2])) = WHITE_KING
     /\ query.args[3] = query.args[1]
     /\ abs(query.args[4] - query.args[2]) = 2)
    => MayCastle(query.entry, query.args[1], query.args[2], query.args[4])

(* After 1.e4 e5 2.Nf3 Nc6 3.Bc4 Bc5 isValidMove accepted e1-g1. *)
KingSideCastlingAccepted ==
    /\ query.fn = "isValidMove"
    /\ query.args = <<7, 4, 7, 6>>
    /\ query.value = TRUE
    /\ At(query.entry, 7, 4) = WHITE_KING
    /\ At(query.entry, 7, 7) = WHITE_ROOK

(* Square d lies on the line through the squares k and j. *)
OnLineThrough(k, j, d) ==
    (RowOf(d) - RowOf(k)) * (ColOf(j) - ColOf(k))
        = (ColOf(d) - ColOf(k)) * (RowOf(j) - RowOf(k))

(* The call recorded in query asked isValidMove about a move of a pinned   *)
(* piece of the side to move.                                              *)
AskedAboutPinnedPiece ==
    /\ query.fn = "isValidMove"
    /\ \A n \in 1 .. 4 : OnBoard(query.args[n])
    /\ OwnPiece(query.entry, At(query.entry, query.args[1], query.args[2]))
    /\ PinnersOf(query.entry, Idx(query.args[1], query.args[2])) # {}

(* The move asked about ends on the line through the king and the slider   *)
(* pinning the piece.                                                      *)
StaysOnPinLine ==
    \E j \in PinnersOf(query.entry, Idx(query.args[1], query.args[2])) :
        OnLineThrough(FindKing(query.entry,
                               IF query.entry.isWhiteTurn THEN WHITE_KING ELSE BLACK_KING),
                      j, Idx(query.args[3], query.args[4]))

(* The move asked about fits the piece's movement pattern and does not end *)
(* on a piece of the mover's own colour.                                   *)
PatternValid ==
    /\ ~OwnPiece(query.entry, At(query.entry, query.args[3], query.args[4]))
    /\ validPieceMove(query.entry, query.args[1], query.args[2], query.args[3], query.args[4])

(* C19 as first stated: isValidMove rejects every move of a pinned piece   *)
(* that leaves the line through king and slider, and accepts every         *)
(* pattern-valid move that stays on it.                                    *)
PinnedPieceKeptOnLine ==
    AskedAboutPinnedPiece
    => /\ ~StaysOnPinLine => query.value = FALSE
       /\ (StaysOnPinLine /\ PatternValid) => query.value = TRUE

(* C19: isValidMove rejects every move of a pinned piece that leaves the   *)
(* line through king and slider, whatever the piece kind, and accepts a    *)
(* pattern-valid move that stays on it (capturing the slider included)     *)
(* exactly when the mover's king is not in check from another piece.       *)
PinnedPieceKeptOnLineUnlessInCheck ==
    AskedAboutPinnedPiece
    => /\ ~StaysOnPinLine => query.value = FALSE
       /\ (StaysOnPinLine /\ PatternValid)
             => (query.value = TRUE
                    <=> ~AttackedBy(query.entry,
                                    RowOf(FindKing(query.entry,
                                                   IF query.entry.isWhiteTurn
                                                   THEN WHITE_KING ELSE BLACK_KING)),
                                    ColOf(FindKing(query.entry,
                                                   IF query.entry.isWhiteTurn
                                                   THEN WHITE_KING ELSE BLACK_KING)),
                                    ~query.entry.isWhiteTurn))

(* The pinned pawn f2 was allowed to take the bishop g3 that pins it. *)
PinnedPawnTookPinningBishop ==
    /\ AskedAboutPinnedPiece
    /\ query.args = <<6, 5, 5, 6>>
    /\ At(query.entry, 6, 5) = WHITE_PAWN
    /\ At(query.entry, 5, 6) = BLACK_BISHOP
    /\ query.value = TRUE

(* The mover's king is attacked once makeMove has made the move. *)
OwnKingLeftAttacked(s, fromRow, fromCol, toRow, toCol) ==
    isInCheck(makeMove(s, fromRow, fromCol, toRow, toCol, "Q"), s.isWhiteTurn)

(* C26: the earlier isValidMove (part_000) answers with the piece's        *)
(* movement predicate alone for every move it does not refuse out of hand, *)
(* while the later isValidMove accepts no move that leaves the mover's own *)
(* king attacked.                                                          *)
SelfCheckGuardReachedInLaterVariant ==
    /\ query.fn = "isValidMove_part_000"
          => query.value =
                (/\ ~RefusedOutOfHand(query.entry, query.args[1], query.args[2],
                                      query.args[3], query.args[4])
                 /\ SwitchOf_part_000(query.entry, query.args[1], query.args[2],
                                      query.args[3], query.args[4]))
    /\ (query.fn = "isValidMove" /\ query.value = TRUE)
          => ~OwnKingLeftAttacked(query.entry, query.args[1], query.args[2],
                                  query.args[3], query.args[4])

(* The earlier isValidMove has accepted a move of the white rook e4 off    *)
(* the e-file, which leaves the king e1 attacked by the black rook e8.     *)
EarlierVariantAcceptedSelfCheck ==
    /\ query.fn = "isValidMove_part_000"
    /\ query.value = TRUE
    /\ At(query.entry, query.args[1], query.args[2]) = WHITE_ROOK
    /\ query.args[2] # query.args[4]
    /\ doesMovePutKingInCheck_part_000(query.entry, query.args[1], query.args[2],
                                       query.args[3], query.args[4])
    /\ OwnKingLeftAttacked(query.entry, query.args[1], query.args[2],
                           query.args[3], query.args[4])

(* isValidMove without its pin step: the tests made out of hand, the       *)
(* piece's movement predicate and the self-check guard.                    *)
isValidMoveWithoutPinStep(s, fromRow, fromCol, toRow, toCol) ==
    /\ ~RejectedAtOnce(s, fromRow, fromCol, toRow, toCol)
    /\ validPieceMove(s, fromRow, fromCol, toRow, toCol)
    /\ ~doesMovePutKingInCheck(s, fromRow, fromCol, toRow, toCol)

(* The pin step of isValidMove rejects the move. *)
PinStepRejects(s, fromRow, fromCol, toRow, toCol) ==
    /\ ~RejectedAtOnce(s, fromRow, fromCol, toRow, toCol)
    /\ validPieceMove(s, fromRow, fromCol, toRow, toCol)
    /\ getPinInfo(s, fromRow, fromCol).isPinned
    /\ ~isMoveAlongPinRay(fromRow, fromCol, toRow, toCol, getPinInfo(s, fromRow, fromCol))

(* C27: isValidMove returns what it would return without its pin step:     *)
(* every move the pin step rejects is a move doesMovePutKingInCheck        *)
(* rejects.                                                                *)
PinStepNeverChangesVerdict ==
    query.fn = "isValidMove"
    => /\ query.value = isValidMoveWithoutPinStep(query.entry, query.args[1], query.args[2],
                                                  query.args[3], query.args[4])
       /\ PinStepRejects(query.entry, query.args[1], query.args[2],
                         query.args[3], query.args[4])
             => doesMovePutKingInCheck(query.entry, query.args[1], query.args[2],
                                       query.args[3], query.args[4])

(* isValidMove has refused, at its pin step, a move of the white knight c1 *)
(* while the black rook h1 gives check to the king e1 between them.        *)
PinStepRefusedKnightMove ==
    /\ query.fn = "isValidMove"
    /\ query.value = FALSE
    /\ PinStepRejects(query.entry, query.args[1], query.args[2],
                      query.args[3], query.args[4])
    /\ At(query.entry, query.args[1], query.args[2]) = WHITE_KNIGHT

(***************************************************************************)
(* Properties of the search (SpecAI)                                       *)
(***************************************************************************)
(* C1: getAIMove and every minimax and quiescence call inside it return    *)
(* with the position exactly as they found it, on every return path, and   *)
(* between two moves of a call's loop the position is the one the call     *)
(* was entered with.                                                       *)
SearchRestoresPosition ==
    /\ ret.fn # "none" => ret.exit = ret.entry
    /\ (stack # <<>> /\ ret.fn = "none") => state = Head(stack).entry

(* An inner minimax call has left its loop through the alpha-beta break,   *)
(* on a board that differs from the one getAIMove was called on.           *)
MinimaxBrokeOff ==
    /\ ret.fn = "minimax"
    /\ ret.path = "break"
    /\ stack # <<>>
    /\ ret.entry # aiEntry
    /\ ret.exit = ret.entry

QuiescenceDepth == Cardinality({k \in 1 .. Len(stack) : stack[k].fn = "quiescence"})

(* The piece the call in frame f took with the move it is waiting on is a  *)
(* piece of the other colour than the one f's flag denotes.                *)
TookEnemyPiece(f) == IF f.isMax THEN islower(f.tempPiece) ELSE isupper(f.tempPiece)

(* C22: quiescence calls itself only after a move onto a square occupied   *)
(* by an enemy piece, each nested quiescence call runs on a board with     *)
(* strictly fewer pieces than its caller's, and the number of nested       *)
(* quiescence calls never exceeds the number of pieces on the board of the *)
(* outermost of them.                                                      *)
QuiescenceRecursesThroughCaptures ==
    /\ \A k \in 1 .. Len(stack) - 1 :
          (stack[k].fn = "quiescence" /\ stack[k + 1].fn = "quiescence")
          => /\ TookEnemyPiece(stack[k + 1])
             /\ PieceCount(stack[k].entry) < PieceCount(stack[k + 1].entry)
    /\ (stack # <<>> /\ Head(stack).fn = "quiescence" /\ ret.fn = "quiescence")
          => /\ TookEnemyPiece(Head(stack))
             /\ PieceCount(ret.entry) < PieceCount(Head(stack).entry)
    /\ QuiescenceDepth > 0
          => QuiescenceDepth <= PieceCount(stack[QuiescenceDepth].entry)

(* A quiescence call made by quiescence is in its own loop, one piece      *)
(* fewer on its board than on its caller's.                                *)
QuiescenceCalledItself ==
    /\ Len(stack) >= 2
    /\ stack[1].fn = "quiescence"
    /\ stack[2].fn = "quiescence"
    /\ PieceCount(stack[1].entry) = PieceCount(stack[2].entry) - 1

(* The isMaximizingPlayer flag of the call that has just returned to the   *)
(* call in the innermost frame: every caller passes on its own flag        *)
(* negated.                                                                *)
ReturnedFlag == ~Head(stack).isMax

(* C23: when minimax at positive depth returns because no move was         *)
(* generated, the side whose moves were generated is the side its flag     *)
(* denotes, and the value is the mate score against that side if its king  *)
(* is in check (-100000 for White, +100000 for Black) and 0 if it is not.  *)
NoMoveScoreIsMateOrStalemate ==
    (ret.fn = "minimax" /\ ret.path = "noMoves" /\ stack # <<>>)
    => /\ ReturnedFlag = ret.entry.isWhiteTurn
       /\ ret.value = IF ~isInCheck(ret.entry, ReturnedFlag) THEN 0
                      ELSE IF ReturnedFlag THEN -SCORE_LIMIT ELSE SCORE_LIMIT

(* The piece the move m moves on the board of s is of the colour the flag  *)
(* denotes: white when it is true, black when it is false.                 *)
MoveOfFlaggedSide(s, m, isMaximizingPlayer) ==
    IF isMaximizingPlayer THEN isupper(At(s, m[1], m[2])) ELSE islower(At(s, m[1], m[2]))

(* C24: within a search the flag alternates from each call to the call it  *)
(* makes, and at every node the moves generated by getAIMove and minimax   *)
(* and the capture quiescence has made are moves of the colour the node's  *)
(* flag denotes.                                                           *)
PliesAlternateBetweenSides ==
    /\ \A k \in 1 .. Len(stack) - 1 : stack[k].isMax = ~stack[k + 1].isMax
    /\ \A k \in 1 .. Len(stack) :
          /\ \A i \in 1 .. Len(stack[k].moves) :
                MoveOfFlaggedSide(stack[k].entry, stack[k].moves[i], stack[k].isMax)
          /\ stack[k].cur # NO_MOVE
                => MoveOfFlaggedSide(stack[k].entry, stack[k].cur, stack[k].isMax)

(* The board b is one that makeMove produces from s for the move m, with   *)
(* one of the letters promotePawn accepts.                                 *)
BoardAsMakeMove(b, s, m) ==
    \E promotion \in PromotionsFor(s, m) :
        b = makeMove(s, m[1], m[2], m[3], m[4], promotion).board

(* C25: the board every minimax or quiescence call inside a search runs on *)
(* is the board makeMove produces from its caller's board for the move the *)
(* caller is trying (castling, en passant and promotion included).         *)
SearchBoardsAsMakeMove ==
    /\ \A k \in 2 .. Len(stack) :
          BoardAsMakeMove(stack[k - 1].entry.board, stack[k].entry, stack[k].cur)
    /\ (stack # <<>> /\ ret.fn \in {"minimax", "quiescence"})
          => BoardAsMakeMove(ret.entry.board, Head(stack).entry, Head(stack).cur)

PeerChangesPositionOnlyByValidMove ==
    [][(pc \in {"receiveMove", "receiveGameState"} /\ state' # state)
          => /\ pc = "receiveMove"
             /\ socket # <<>>
             /\ receiveMove(Head(socket)) # <<>>
             /\ isValidMove(state, receiveMove(Head(socket))[1], receiveMove(Head(socket))[2],
                            receiveMove(Head(socket))[3], receiveMove(Head(socket))[4])
             /\ \E promotion \in PromotionsFor(state, receiveMove(Head(socket))) :
                    state' = FlipTurn(makeMove(state,
                                               receiveMove(Head(socket))[1],
                                               receiveMove(Head(socket))[2],
                                               receiveMove(Head(socket))[3],
                                               receiveMove(Head(socket))[4], promotion))]_vars

(***************************************************************************)
(* Properties of the multiplayer loop with a peer that follows the         *)
(* protocol and stays connected (SpecNetLive)                              *)
(***************************************************************************)
(* The peer has made a move the local program has not taken over yet. *)
PeerMoveOutstanding ==
    /\ peerState.isWhiteTurn = playerIsWhite
    /\ state.isWhiteTurn # playerIsWhite

(* main is out of the waiting loop with the peer's move on the board. *)
PeerMoveTakenOver ==
    /\ pc = "main"
    /\ state.isWhiteTurn = playerIsWhite
    /\ state.board = peerState.board

(* C30: whenever the peer has made a move, sent as a MSG_MOVE followed by  *)
(* a MSG_GAME_STATE, the waiting loop eventually ends with the move on the *)
(* local board, whenever the two messages arrive between the loop's polls. *)
WaitingLoopEndsWithPeerMove == PeerMoveOutstanding ~> PeerMoveTakenOver

====
